---- MODULE Spec2Model ----
(***************************************************************************)
(* A model of gitops-secrets' encryption module (secrets.ts, utils.ts,     *)
(* types.ts): encrypt, decrypt, mergeSecrets and loadSecrets, with the     *)
(* platform primitives they call (TextEncoder/TextDecoder, btoa/atob,      *)
(* Number/parseInt, JSON.parse, Web Crypto) modelled by what they do.      *)
(*                                                                         *)
(* A JavaScript string is a sequence of UTF-16 code units (numbers), a     *)
(* Uint8Array a sequence of numbers 0..255.                                *)
(***************************************************************************)
EXTENDS Integers, Sequences, FiniteSets, TLC

----------------------------------------------------------------------------
(* Text: literals, comparison, splitting.                                  *)

\* The printable ASCII characters, in code order from 32 (space) to 126 (~);
\* code 96 is written "grave", since a string cannot hold that character.
Ascii ==
    << " ", "!", "\"", "#", "$", "%", "&", "'", "(", ")", "*", "+", ",", "-", ".", "/",
       "0", "1", "2", "3", "4", "5", "6", "7", "8", "9", ":", ";", "<", "=", ">", "?",
       "@", "A", "B", "C", "D", "E", "F", "G", "H", "I", "J", "K", "L", "M", "N", "O",
       "P", "Q", "R", "S", "T", "U", "V", "W", "X", "Y", "Z", "[", "\\", "]", "^", "_",
       "grave", "a", "b", "c", "d", "e", "f", "g", "h", "i", "j", "k", "l", "m", "n", "o",
       "p", "q", "r", "s", "t", "u", "v", "w", "x", "y", "z", "{", "|", "}", "~" >>

\* The code unit of a printable ASCII character.
Code(c) == 31 + (CHOOSE i \in 1..Len(Ascii) : Ascii[i] = c)

\* A string literal, written as the tuple of its characters.
Str(t) == [i \in 1..Len(t) |-> Code(t[i])]

\* s.startsWith(prefix)
StartsWith(s, prefix) ==
    /\ Len(s) >= Len(prefix)
    /\ SubSeq(s, 1, Len(prefix)) = prefix

\* s.substring(n): the code units after the first n
Substring(s, n) == SubSeq(s, n + 1, Len(s))

\* The index of the first occurrence of code unit c in s at or after i, or 0.
RECURSIVE IndexFrom(_, _, _)
IndexFrom(s, c, i) ==
    IF i > Len(s) THEN 0
    ELSE IF s[i] = c THEN i
    ELSE IndexFrom(s, c, i + 1)

\* s.split(sep) for a one-character separator: always at least one segment.
RECURSIVE Split(_, _)
Split(s, sep) ==
    LET i == IndexFrom(s, sep, 1)
    IN  IF i = 0 THEN <<s>>
        ELSE <<SubSeq(s, 1, i - 1)>> \o Split(Substring(s, i), sep)

\* The segments joined again with the separator between them.
RECURSIVE Join(_, _)
Join(parts, sep) ==
    IF Len(parts) = 0 THEN <<>>
    ELSE IF Len(parts) = 1 THEN parts[1]
    ELSE parts[1] \o <<sep>> \o Join(Tail(parts), sep)

\* ASCII digits.
IsDigit(c) == c >= 48 /\ c <= 57

\* The decimal digits of a natural number (Number.prototype.toString for an
\* integer below 10^21).
RECURSIVE NatToStr(_)
NatToStr(n) ==
    IF n < 10 THEN <<48 + n>>
    ELSE NatToStr(n \div 10) \o <<48 + (n % 10)>>

----------------------------------------------------------------------------
(* new TextEncoder().encode(s) and new TextDecoder('utf8').decode(bytes).  *)

IsHighSurrogate(u) == u >= 55296 /\ u <= 56319
IsLowSurrogate(u) == u >= 56320 /\ u <= 57343

\* The UTF-8 bytes of one code point.
Utf8OfCodePoint(cp) ==
    IF cp < 128 THEN <<cp>>
    ELSE IF cp < 2048 THEN <<192 + (cp \div 64), 128 + (cp % 64)>>
    ELSE IF cp < 65536
        THEN <<224 + (cp \div 4096), 128 + ((cp \div 64) % 64), 128 + (cp % 64)>>
    ELSE <<240 + (cp \div 262144), 128 + ((cp \div 4096) % 64),
           128 + ((cp \div 64) % 64), 128 + (cp % 64)>>

\* TextEncoder.encode: the string is first made a scalar-value string (a
\* surrogate pair is one code point, an unpaired surrogate becomes U+FFFD),
\* then each code point is written in UTF-8.
RECURSIVE TextEncodeFrom(_, _)
TextEncodeFrom(s, i) ==
    IF i > Len(s) THEN <<>>
    ELSE IF IsHighSurrogate(s[i]) /\ i < Len(s) /\ IsLowSurrogate(s[i + 1])
        THEN Utf8OfCodePoint(65536 + (s[i] - 55296) * 1024 + (s[i + 1] - 56320))
             \o TextEncodeFrom(s, i + 2)
    ELSE IF IsHighSurrogate(s[i]) \/ IsLowSurrogate(s[i])
        THEN Utf8OfCodePoint(65533) \o TextEncodeFrom(s, i + 1)
    ELSE Utf8OfCodePoint(s[i]) \o TextEncodeFrom(s, i + 1)

TextEncode(s) == TextEncodeFrom(s, 1)

\* The UTF-16 code units of one code point.
Utf16OfCodePoint(cp) ==
    IF cp < 65536 THEN <<cp>>
    ELSE <<55296 + ((cp - 65536) \div 1024), 56320 + ((cp - 65536) % 1024)>>

\* The UTF-8 decoder of the Encoding standard, in replacement mode: cp, seen
\* and needed are the code point being read, lower and upper the bounds of
\* the next continuation byte. A malformed sequence yields U+FFFD and the
\* offending byte is read again as the start of a sequence.
RECURSIVE Utf8DecodeFrom(_, _, _, _, _, _, _)
Utf8DecodeFrom(b, i, cp, seen, needed, lower, upper) ==
    IF i > Len(b) THEN (IF needed # 0 THEN <<65533>> ELSE <<>>)
    ELSE IF needed = 0 THEN
        IF b[i] <= 127
            THEN <<b[i]>> \o Utf8DecodeFrom(b, i + 1, 0, 0, 0, 128, 191)
        ELSE IF b[i] >= 194 /\ b[i] <= 223
            THEN Utf8DecodeFrom(b, i + 1, b[i] % 32, 0, 1, 128, 191)
        ELSE IF b[i] >= 224 /\ b[i] <= 239
            THEN Utf8DecodeFrom(b, i + 1, b[i] % 16, 0, 2,
                                IF b[i] = 224 THEN 160 ELSE 128,
                                IF b[i] = 237 THEN 159 ELSE 191)
        ELSE IF b[i] >= 240 /\ b[i] <= 244
            THEN Utf8DecodeFrom(b, i + 1, b[i] % 8, 0, 3,
                                IF b[i] = 240 THEN 144 ELSE 128,
                                IF b[i] = 244 THEN 143 ELSE 191)
        ELSE <<65533>> \o Utf8DecodeFrom(b, i + 1, 0, 0, 0, 128, 191)
    ELSE IF b[i] < lower \/ b[i] > upper
        THEN <<65533>> \o Utf8DecodeFrom(b, i, 0, 0, 0, 128, 191)
    ELSE IF seen + 1 = needed
        THEN Utf16OfCodePoint(cp * 64 + (b[i] % 64))
             \o Utf8DecodeFrom(b, i + 1, 0, 0, 0, 128, 191)
    ELSE Utf8DecodeFrom(b, i + 1, cp * 64 + (b[i] % 64), seen + 1, needed, 128, 191)

\* TextDecoder('utf8').decode: ignoreBOM is false, so a leading byte order
\* mark EF BB BF is consumed and is not part of the result.
TextDecode(b) ==
    IF Len(b) >= 3 /\ SubSeq(b, 1, 3) = <<239, 187, 191>>
    THEN Utf8DecodeFrom(b, 4, 0, 0, 0, 128, 191)
    ELSE Utf8DecodeFrom(b, 1, 0, 0, 0, 128, 191)

----------------------------------------------------------------------------
(* utils.ts: btoa and atob over binary strings.                            *)

\* The code unit of the base64 digit for a 6-bit value.
B64Char(v) ==
    IF v < 26 THEN 65 + v
    ELSE IF v < 52 THEN 97 + (v - 26)
    ELSE IF v < 62 THEN 48 + (v - 52)
    ELSE IF v = 62 THEN 43
    ELSE 47

\* The 6-bit value of a base64 digit, or -1 for any other code unit.
B64Value(c) ==
    IF c >= 65 /\ c <= 90 THEN c - 65
    ELSE IF c >= 97 /\ c <= 122 THEN c - 97 + 26
    ELSE IF c >= 48 /\ c <= 57 THEN c - 48 + 52
    ELSE IF c = 43 THEN 62
    ELSE IF c = 47 THEN 63
    ELSE -1

\* btoa(data) for a binary string (every code unit below 256): three bytes
\* make four digits, a last group of one or two bytes is padded with '='.
RECURSIVE Btoa(_)
Btoa(d) ==
    IF Len(d) = 0 THEN <<>>
    ELSE IF Len(d) = 1
        THEN <<B64Char(d[1] \div 4), B64Char((d[1] % 4) * 16), 61, 61>>
    ELSE IF Len(d) = 2
        THEN <<B64Char(d[1] \div 4), B64Char((d[1] % 4) * 16 + (d[2] \div 16)),
               B64Char((d[2] % 16) * 4), 61>>
    ELSE <<B64Char(d[1] \div 4), B64Char((d[1] % 4) * 16 + (d[2] \div 16)),
           B64Char((d[2] % 16) * 4 + (d[3] \div 64)), B64Char(d[3] % 64)>>
         \o Btoa(SubSeq(d, 4, Len(d)))

\* uint8ArrayToBase64(buffer): each byte becomes the code unit of that value
\* (String.fromCharCode), the code units are joined and given to btoa.
uint8ArrayToBase64(buffer) == Btoa([i \in 1..Len(buffer) |-> buffer[i]])

IsAsciiWhitespace(c) == c \in {9, 10, 12, 13, 32}

\* s without its ASCII white space.
NotAsciiWhitespace(c) == ~IsAsciiWhitespace(c)
StripWhitespace(s) == SelectSeq(s, NotAsciiWhitespace)

\* atob's input after the standard's first steps: ASCII whitespace removed,
\* then one or two trailing '=' removed when the length is a multiple of 4.
AtobStripped(s) ==
    LET t == StripWhitespace(s)
        n == Len(t)
    IN  IF n > 0 /\ n % 4 = 0 /\ t[n] = 61
        THEN IF t[n - 1] = 61 THEN SubSeq(t, 1, n - 2) ELSE SubSeq(t, 1, n - 1)
        ELSE t

\* atob throws InvalidCharacterError when what is left has length 1 mod 4 or
\* holds a code unit that is no base64 digit.
AtobFails(s) ==
    LET t == AtobStripped(s)
    IN  \/ Len(t) % 4 = 1
        \/ \E i \in 1..Len(t) : B64Value(t[i]) = -1

\* The bytes of a run of base64 digits: four digits make three bytes; a last
\* group of two digits makes one byte and of three digits two bytes, the
\* bits left over being dropped.
RECURSIVE B64Bytes(_)
B64Bytes(t) ==
    IF Len(t) < 2 THEN <<>>
    ELSE LET a == B64Value(t[1])
             b == B64Value(t[2])
         IN  IF Len(t) = 2 THEN <<a * 4 + (b \div 16)>>
             ELSE LET c == B64Value(t[3])
                  IN  IF Len(t) = 3
                      THEN <<a * 4 + (b \div 16), (b % 16) * 16 + (c \div 4)>>
                      ELSE <<a * 4 + (b \div 16), (b % 16) * 16 + (c \div 4),
                             (c % 4) * 64 + B64Value(t[4])>>
                           \o B64Bytes(SubSeq(t, 5, Len(t)))

\* atob(s) where it does not throw.
Atob(s) == B64Bytes(AtobStripped(s))

\* base64ToUint8Array(base64): atob, then one byte per code unit of the
\* binary string. The result is a thrown error or the bytes.
base64ToUint8Array(base64) ==
    IF AtobFails(base64)
    THEN [ok |-> FALSE,
          error |-> [name |-> "InvalidCharacterError",
                     message |-> <<"The string to be decoded is not correctly encoded.">>]]
    ELSE LET binaryString == Atob(base64)
         IN  [ok |-> TRUE,
              bytes |-> [i \in 1..Len(binaryString) |-> binaryString[i]]]

----------------------------------------------------------------------------
(* Numbers: Number(string), Number.parseInt(string, 10).                   *)
(* A number is NaN, an infinity, or a finite value kept as its integer     *)
(* part (rounded toward zero) and whether a fractional part is left.       *)

NaN == [kind |-> "NaN"]
Infinity == [kind |-> "Infinity"]
Finite(n, hasFraction) == [kind |-> "finite", trunc |-> n, frac |-> hasFraction]

\* WhiteSpace and LineTerminator code units (StrWhiteSpaceChar).
IsStrWhiteSpace(c) == c \in {9, 10, 11, 12, 13, 32, 160, 5760, 8232, 8233, 8239, 8287, 12288, 65279}
                       \/ (c >= 8192 /\ c <= 8202)

RECURSIVE TrimStart(_)
TrimStart(s) ==
    IF Len(s) > 0 /\ IsStrWhiteSpace(s[1]) THEN TrimStart(Tail(s)) ELSE s

RECURSIVE TrimEnd(_)
TrimEnd(s) ==
    IF Len(s) > 0 /\ IsStrWhiteSpace(s[Len(s)]) THEN TrimEnd(SubSeq(s, 1, Len(s) - 1)) ELSE s

\* The value of a digit in a base up to 16, or -1.
DigitValue(c, base) ==
    LET v == IF IsDigit(c) THEN c - 48
             ELSE IF c >= 97 /\ c <= 102 THEN c - 97 + 10
             ELSE IF c >= 65 /\ c <= 70 THEN c - 65 + 10
             ELSE -1
    IN  IF v < base THEN v ELSE -1

\* How many code units of s, from position i on, are digits of the base.
RECURSIVE DigitRun(_, _, _)
DigitRun(s, i, base) ==
    IF i <= Len(s) /\ DigitValue(s[i], base) >= 0 THEN 1 + DigitRun(s, i + 1, base) ELSE 0

\* The value of a run of digits.
RECURSIVE DigitsValue(_, _)
DigitsValue(ds, base) ==
    IF Len(ds) = 0 THEN 0
    ELSE DigitsValue(SubSeq(ds, 1, Len(ds) - 1), base) * base + DigitValue(ds[Len(ds)], base)

AllZero(ds) == \A i \in 1..Len(ds) : ds[i] = 48

\* n zeros.
Zeros(n) == [i \in 1..n |-> 48]

\* The finite number whose decimal digits are ds with the decimal point
\* after the first `point` of them (point may be negative or past the end).
Scaled(negative, ds, point) ==
    LET whole == IF point <= 0 THEN <<>>
                 ELSE IF point >= Len(ds) THEN ds \o Zeros(point - Len(ds))
                 ELSE SubSeq(ds, 1, point)
        rest  == IF point <= 0 THEN ds
                 ELSE IF point >= Len(ds) THEN <<>>
                 ELSE SubSeq(ds, point + 1, Len(ds))
        n     == DigitsValue(whole, 10)
    IN  Finite(IF negative THEN -n ELSE n, ~AllZero(rest))

\* StrUnsignedDecimalLiteral: digits, an optional '.' and digits (a digit on
\* one side at least), an optional exponent; nothing may follow.
DecimalLiteral(negative, t) ==
    LET ni   == DigitRun(t, 1, 10)
        dot  == ni + 1 <= Len(t) /\ t[ni + 1] = 46
        f0   == IF dot THEN ni + 2 ELSE ni + 1
        nf   == IF dot THEN DigitRun(t, f0, 10) ELSE 0
        e0   == f0 + nf
        hasE == e0 <= Len(t) /\ t[e0] \in {101, 69}
        sgn  == hasE /\ e0 + 1 <= Len(t) /\ t[e0 + 1] \in {43, 45}
        x0   == IF sgn THEN e0 + 2 ELSE e0 + 1
        nx   == IF hasE THEN DigitRun(t, x0, 10) ELSE 0
        exp  == DigitsValue(SubSeq(t, x0, x0 + nx - 1), 10)
        last == IF hasE THEN x0 + nx - 1 ELSE e0 - 1
    IN  IF ni + nf = 0 \/ (hasE /\ nx = 0) \/ last # Len(t) THEN NaN
        ELSE Scaled(negative,
                    SubSeq(t, 1, ni) \o SubSeq(t, f0, f0 + nf - 1),
                    IF hasE /\ sgn /\ t[e0 + 1] = 45 THEN ni - exp ELSE ni + exp)

\* Number(s) for a string (StringToNumber): surrounding white space is
\* dropped; the empty string is 0; 0x, 0o and 0b literals take no sign; a
\* decimal literal may have a sign, a fraction and an exponent; any other
\* text is NaN.
StringToNumber(s) ==
    LET t == TrimEnd(TrimStart(s))
        radix == IF Len(t) >= 2 /\ t[1] = 48
                 THEN (IF t[2] \in {120, 88} THEN 16
                       ELSE IF t[2] \in {111, 79} THEN 8
                       ELSE IF t[2] \in {98, 66} THEN 2 ELSE 0)
                 ELSE 0
    IN  IF Len(t) = 0 THEN Finite(0, FALSE)
        ELSE IF radix # 0
            THEN IF Len(t) > 2 /\ DigitRun(t, 3, radix) = Len(t) - 2
                 THEN Finite(DigitsValue(SubSeq(t, 3, Len(t)), radix), FALSE)
                 ELSE NaN
        ELSE LET signed == t[1] \in {43, 45}
                 body == IF signed THEN Tail(t) ELSE t
             IN  IF body = Str(<<"I", "n", "f", "i", "n", "i", "t", "y">>) THEN Infinity
                 ELSE DecimalLiteral(t[1] = 45, body)

\* Number.parseInt(s, 10): leading white space is skipped, a sign is taken,
\* then the longest run of decimal digits is read and whatever follows is
\* ignored; NaN when there is no digit.
ParseInt10(s) ==
    LET t == TrimStart(s)
        signed == Len(t) > 0 /\ t[1] \in {43, 45}
        body == IF signed THEN Tail(t) ELSE t
        n == DigitRun(body, 1, 10)
        v == DigitsValue(SubSeq(body, 1, n), 10)
    IN  IF n = 0 THEN NaN
        ELSE Finite(IF signed /\ t[1] = 45 THEN -v ELSE v, FALSE)

----------------------------------------------------------------------------
(* Web Crypto, as the module uses it. PBKDF2 and AES-GCM are modelled by   *)
(* their contracts over a small keyed digest: the derived key is a         *)
(* function of (passphrase, salt, iterations); the cipher output is the    *)
(* plaintext combined with a keystream of (key, iv), followed by a         *)
(* 16-byte tag over (key, iv, ciphertext) that decryption verifies.        *)

\* A settled promise or a completed call: a value or an error.
Ok(v) == [ok |-> TRUE, value |-> v]
Err(name, message) == [ok |-> FALSE, error |-> [name |-> name, message |-> message]]

\* One step of the digest: bijective in h for a given byte, injective in
\* the byte for a given h.
Mix(h, x, m, q) == (h * m + x + 1) % q

\* (The tests of h1 and h2, which are never negative, make the evaluator
\* compute them at each step instead of all at the end.)
RECURSIVE DigestFrom(_, _, _, _)
DigestFrom(b, i, h1, h2) ==
    IF i > Len(b) \/ h1 < 0 \/ h2 < 0 THEN <<h1, h2>>
    ELSE DigestFrom(b, i + 1, Mix(h1, b[i], 33, 65521), Mix(h2, b[i], 31, 65519))

\* The digest of a byte string: a pair of 16-bit values.
Digest(b) == DigestFrom(b, 1, 5381, 7)

\* n bytes spread from a digest; the first four hold the digest itself.
Expand(d, n) ==
    [j \in 1..n |->
        IF j = 1 THEN d[1] % 256
        ELSE IF j = 2 THEN d[1] \div 256
        ELSE IF j = 3 THEN d[2] % 256
        ELSE IF j = 4 THEN d[2] \div 256
        ELSE (d[1] * j + d[2] + j * j) % 256]

\* crypto.getRandomValues(new Uint8Array(n)): n bytes of the random source,
\* one of the fillings it may produce, named by r.
GetRandomValues(n, r) == [i \in 1..n |-> (r * 89 + i) % 256]

\* crypto.subtle.importKey('raw', keyData, {name: 'PBKDF2'}, false,
\* ['deriveKey']): a key holding the raw bytes.
ImportKey(keyData) == Ok([algorithm |-> "PBKDF2", data |-> keyData])

\* The iterations member is an [EnforceRange] unsigned long: NaN and the
\* infinities are a TypeError, a finite value is rounded toward zero and
\* must lie in 0 .. 2^32 - 1 (the model's numbers stay below 2^31); PBKDF2
\* then refuses 0 iterations with an OperationError.
IterationsError(iterations) ==
    IF iterations.kind # "finite" \/ iterations.trunc < 0
    THEN Err("TypeError", <<"iterations is outside the expected range">>)
    ELSE IF iterations.trunc = 0
    THEN Err("OperationError", <<"iterations cannot be zero">>)
    ELSE Ok(iterations.trunc)

\* The four bytes of a number below 2^32, most significant first.
UInt32Bytes(n) ==
    <<(n \div 16777216) % 256, (n \div 65536) % 256, (n \div 256) % 256, n % 256>>

\* PBKDF2 with SHA-256 to a key of keylen bytes.
Pbkdf2(password, salt, n, keylen) ==
    Expand(Digest(<<Len(password)>> \o password \o <<Len(salt)>> \o salt \o UInt32Bytes(n)),
           keylen)

\* The length in bytes of the AES-GCM authentication tag (tagLength 128,
\* the default).
TagBytes == 16

\* The keystream byte at position i under (key, iv).
KeyStream(key, iv, i) ==
    LET d == Digest(key \o <<Len(iv)>> \o iv)
    IN  (d[1] + d[2] * i + i) % 256

\* The authentication tag of a ciphertext body under (key, iv).
Tag(key, iv, body) == Expand(Digest(key \o <<Len(iv)>> \o iv \o body), TagBytes)

\* crypto.subtle.encrypt({name: 'AES-GCM', iv}, key, data): the ciphertext
\* with the tag appended. An empty iv is refused.
AesGcmEncrypt(key, iv, data) ==
    IF Len(iv) = 0
    THEN Err("OperationError", <<"The operation failed for an operation-specific reason">>)
    ELSE LET sealed == [i \in 1..Len(data) |-> (data[i] + KeyStream(key, iv, i)) % 256]
         IN  Ok(sealed \o Tag(key, iv, sealed))

\* A cipher that deciphers without checking the tag.
DecipherUnchecked(key, iv, data) ==
    Ok([i \in 1..(Len(data) - TagBytes) |-> (data[i] - KeyStream(key, iv, i)) % 256])

\* crypto.subtle.decrypt({name: 'AES-GCM', iv}, key, data): the data must
\* hold a tag, and the tag must be the one of its body under (key, iv);
\* then the body is deciphered. Every failure is the same OperationError.
AesGcmDecrypt(key, iv, data) ==
    LET n == Len(data) - TagBytes
        sealed == SubSeq(data, 1, n)
    IN  IF Len(iv) = 0 \/ n < 0 \/ SubSeq(data, n + 1, Len(data)) # Tag(key, iv, sealed)
        THEN Err("OperationError", <<"The operation failed for an operation-specific reason">>)
        ELSE Ok([i \in 1..n |-> (sealed[i] - KeyStream(key, iv, i)) % 256])

----------------------------------------------------------------------------
(* JavaScript values, as far as the module meets them, and JSON.parse.     *)

JsString(s) == [t |-> "string", s |-> s]
JsNumber(n) == [t |-> "number", n |-> n]
JsBoolean(b) == [t |-> "boolean", b |-> b]
JsNull == [t |-> "null"]
\* An object is the sequence of its own properties <<key, value>>, keys
\* distinct; an array the sequence of its elements.
JsObject(entries) == [t |-> "object", entries |-> entries]
JsArray(items) == [t |-> "array", items |-> items]

\* Number(v)
ToNumber(v) == IF v.t = "string" THEN StringToNumber(v.s) ELSE v.n

\* String(v), as a template literal or an assignment to process.env makes it
\* (numbers: the integers; the model holds no other number in these places).
RECURSIVE ToStr(_)
ToStr(v) ==
    CASE v.t = "string" -> v.s
      [] v.t = "number" ->
            IF v.n.kind = "NaN" THEN Str(<<"N", "a", "N">>)
            ELSE IF v.n.kind = "Infinity" THEN Str(<<"I", "n", "f", "i", "n", "i", "t", "y">>)
            ELSE IF v.n.trunc < 0 THEN <<45>> \o NatToStr(-v.n.trunc)
            ELSE NatToStr(v.n.trunc)
      [] v.t = "boolean" ->
            IF v.b THEN Str(<<"t", "r", "u", "e">>) ELSE Str(<<"f", "a", "l", "s", "e">>)
      [] v.t = "null" -> Str(<<"n", "u", "l", "l">>)
      [] v.t = "object" ->
            Str(<<"[", "o", "b", "j", "e", "c", "t", " ", "O", "b", "j", "e", "c", "t", "]">>)
      [] v.t = "array" ->
            Join([i \in 1..Len(v.items) |->
                     IF v.items[i].t = "null" THEN <<>> ELSE ToStr(v.items[i])], 44)

\* Object.entries(v): the properties of an object; the indexed elements of
\* an array or the indexed characters of a string; nothing for a number or
\* a boolean; a TypeError for null.
ObjectEntries(v) ==
    CASE v.t = "object" -> Ok(v.entries)
      [] v.t = "array" -> Ok([i \in 1..Len(v.items) |-> <<NatToStr(i - 1), v.items[i]>>])
      [] v.t = "string" -> Ok([i \in 1..Len(v.s) |-> <<NatToStr(i - 1), JsString(<<v.s[i]>>)>>])
      [] v.t = "null" -> Err("TypeError", <<"Cannot convert undefined or null to object">>)
      [] OTHER -> Ok(<<>>)

\* The properties with property <<k, v>> set: an existing key keeps its
\* place and takes the new value.
SetEntry(entries, k, v) ==
    IF \E i \in 1..Len(entries) : entries[i][1] = k
    THEN [i \in 1..Len(entries) |-> IF entries[i][1] = k THEN <<k, v>> ELSE entries[i]]
    ELSE Append(entries, <<k, v>>)

JsonFail == [ok |-> FALSE]
JsonAt(v, next) == [ok |-> TRUE, value |-> v, next |-> next]

\* The position of the first code unit at or after i that is no JSON
\* white space.
RECURSIVE JsonSkip(_, _)
JsonSkip(s, i) ==
    IF i <= Len(s) /\ s[i] \in {9, 10, 13, 32} THEN JsonSkip(s, i + 1) ELSE i

\* Whether the text has the given literal at position i.
HasAt(s, i, lit) == i + Len(lit) - 1 <= Len(s) /\ SubSeq(s, i, i + Len(lit) - 1) = lit

\* The characters of a JSON string whose opening quote is before position
\* i, up to the closing quote.
RECURSIVE JsonChars(_, _, _)
JsonChars(s, i, acc) ==
    IF i > Len(s) \/ s[i] < 32 THEN JsonFail
    ELSE IF s[i] = 34 THEN JsonAt(acc, i + 1)
    ELSE IF s[i] # 92 THEN JsonChars(s, i + 1, Append(acc, s[i]))
    ELSE IF i + 1 > Len(s) THEN JsonFail
    ELSE IF s[i + 1] \in {34, 92, 47} THEN JsonChars(s, i + 2, Append(acc, s[i + 1]))
    ELSE IF s[i + 1] = 98 THEN JsonChars(s, i + 2, Append(acc, 8))
    ELSE IF s[i + 1] = 102 THEN JsonChars(s, i + 2, Append(acc, 12))
    ELSE IF s[i + 1] = 110 THEN JsonChars(s, i + 2, Append(acc, 10))
    ELSE IF s[i + 1] = 114 THEN JsonChars(s, i + 2, Append(acc, 13))
    ELSE IF s[i + 1] = 116 THEN JsonChars(s, i + 2, Append(acc, 9))
    ELSE IF s[i + 1] = 117 /\ DigitRun(s, i + 2, 16) >= 4
        THEN JsonChars(s, i + 6, Append(acc, DigitsValue(SubSeq(s, i + 2, i + 5), 16)))
    ELSE JsonFail

\* A JSON number at position i: an optional '-', an integer part without a
\* leading zero, an optional fraction and exponent with digits.
JsonNumber(s, i) ==
    LET neg  == i <= Len(s) /\ s[i] = 45
        d0   == IF neg THEN i + 1 ELSE i
        ni   == DigitRun(s, d0, 10)
        dot  == d0 + ni <= Len(s) /\ s[d0 + ni] = 46
        nf   == IF dot THEN DigitRun(s, d0 + ni + 1, 10) ELSE 0
        e0   == IF dot THEN d0 + ni + 1 + nf ELSE d0 + ni
        hasE == e0 <= Len(s) /\ s[e0] \in {101, 69}
        sgn  == hasE /\ e0 + 1 <= Len(s) /\ s[e0 + 1] \in {43, 45}
        x0   == IF sgn THEN e0 + 2 ELSE e0 + 1
        nx   == IF hasE THEN DigitRun(s, x0, 10) ELSE 0
        next == IF hasE THEN x0 + nx ELSE e0
    IN  IF ni = 0 \/ (ni > 1 /\ s[d0] = 48) \/ (dot /\ nf = 0) \/ (hasE /\ nx = 0)
        THEN JsonFail
        ELSE JsonAt(JsNumber(DecimalLiteral(neg, SubSeq(s, d0, next - 1))), next)

RECURSIVE JsonValue(_, _)
RECURSIVE JsonMembers(_, _, _)
RECURSIVE JsonElements(_, _, _)

\* The members of an object from position i (after '{' or ','), added to
\* acc, up to the closing brace.
JsonMembers(s, i, acc) ==
    LET k0 == JsonSkip(s, i)
    IN  IF k0 > Len(s) \/ s[k0] # 34 THEN JsonFail
        ELSE LET key == JsonChars(s, k0 + 1, <<>>)
             IN  IF ~key.ok THEN JsonFail
                 ELSE LET c == JsonSkip(s, key.next)
                      IN  IF c > Len(s) \/ s[c] # 58 THEN JsonFail
                          ELSE LET v == JsonValue(s, c + 1)
                               IN  IF ~v.ok THEN JsonFail
                                   ELSE LET e == JsonSkip(s, v.next)
                                            now == SetEntry(acc, key.value, v.value)
                                        IN  IF e > Len(s) THEN JsonFail
                                            ELSE IF s[e] = 125 THEN JsonAt(JsObject(now), e + 1)
                                            ELSE IF s[e] = 44 THEN JsonMembers(s, e + 1, now)
                                            ELSE JsonFail

\* The elements of an array from position i (after '[' or ','), added to
\* acc, up to the closing bracket.
JsonElements(s, i, acc) ==
    LET v == JsonValue(s, i)
    IN  IF ~v.ok THEN JsonFail
        ELSE LET e == JsonSkip(s, v.next)
                 now == Append(acc, v.value)
             IN  IF e > Len(s) THEN JsonFail
                 ELSE IF s[e] = 93 THEN JsonAt(JsArray(now), e + 1)
                 ELSE IF s[e] = 44 THEN JsonElements(s, e + 1, now)
                 ELSE JsonFail

\* The JSON value at position i, white space before it skipped.
JsonValue(s, i) ==
    LET j == JsonSkip(s, i)
    IN  IF j > Len(s) THEN JsonFail
        ELSE IF s[j] = 123 THEN
            (IF JsonSkip(s, j + 1) <= Len(s) /\ s[JsonSkip(s, j + 1)] = 125
             THEN JsonAt(JsObject(<<>>), JsonSkip(s, j + 1) + 1)
             ELSE JsonMembers(s, j + 1, <<>>))
        ELSE IF s[j] = 91 THEN
            (IF JsonSkip(s, j + 1) <= Len(s) /\ s[JsonSkip(s, j + 1)] = 93
             THEN JsonAt(JsArray(<<>>), JsonSkip(s, j + 1) + 1)
             ELSE JsonElements(s, j + 1, <<>>))
        ELSE IF s[j] = 34 THEN
            (LET c == JsonChars(s, j + 1, <<>>)
             IN  IF c.ok THEN JsonAt(JsString(c.value), c.next) ELSE JsonFail)
        ELSE IF HasAt(s, j, Str(<<"t", "r", "u", "e">>)) THEN JsonAt(JsBoolean(TRUE), j + 4)
        ELSE IF HasAt(s, j, Str(<<"f", "a", "l", "s", "e">>)) THEN JsonAt(JsBoolean(FALSE), j + 5)
        ELSE IF HasAt(s, j, Str(<<"n", "u", "l", "l">>)) THEN JsonAt(JsNull, j + 4)
        ELSE JsonNumber(s, j)

\* JSON.parse(text): the one value of the text, or a SyntaxError.
JsonParse(text) ==
    LET v == JsonValue(text, 1)
    IN  IF v.ok /\ JsonSkip(text, v.next) > Len(text)
        THEN Ok(v.value)
        ELSE Err("SyntaxError", <<"Unexpected token in JSON">>)

----------------------------------------------------------------------------
(* secrets.ts: the module's constants and state.                           *)

PBKDF2_KEYLEN == 32
AES_IV_BYTES == 12
AES_SALT_BYTES == 8
\* The number PBKDF2_ROUNDS takes when the variable is unset or empty.
DEFAULT_ROUNDS == 1000000
ENCODING == Str(<<"b", "a", "s", "e", "6", "4">>)

\* The names of the two environment variables the module reads.
MASTER_KEY ==
    Str(<<"G", "I", "T", "O", "P", "S", "_", "S", "E", "C", "R", "E", "T", "S", "_",
          "M", "A", "S", "T", "E", "R", "_", "K", "E", "Y">>)
ROUNDS ==
    Str(<<"G", "I", "T", "O", "P", "S", "_", "S", "E", "C", "R", "E", "T", "S", "_",
          "P", "B", "K", "D", "F", "2", "_", "R", "O", "U", "N", "D", "S">>)

\* EnvTarget
PROCESS == "process"
IMPORT_META == "import.meta"

VARIABLES
    env,            \* process.env: a mapping from names to strings
    metaEnv,        \* import.meta.env, where there is one: names to values
    importMeta,     \* "undefined": typeof import.meta === 'undefined';
                    \* "object": import.meta without env; "env": with env
    PBKDF2_ROUNDS,  \* the module constant, set when the module is evaluated
    calls           \* per caller, its call of the module in progress or
                    \* last finished

vars == <<env, metaEnv, importMeta, PBKDF2_ROUNDS, calls>>

\* A mapping with key k set to v.
Put(m, k, v) == [x \in DOMAIN m \cup {k} |-> IF x = k THEN v ELSE m[x]]

\* A mapping without key k.
Remove(m, k) == [x \in DOMAIN m \ {k} |-> m[x]]

\* process.env.NAME is truthy: set and not the empty string.
Truthy(e, k) == k \in DOMAIN e /\ Len(e[k]) > 0

\* const PBKDF2_ROUNDS = process.env.GITOPS_SECRETS_PBKDF2_ROUNDS || 1000000,
\* evaluated once, when the module is loaded.
LoadRounds(e) ==
    IF Truthy(e, ROUNDS) THEN JsString(e[ROUNDS])
    ELSE JsNumber(Finite(DEFAULT_ROUNDS, FALSE))

\* A passphrase read once and kept, whatever the variable holds later.
CachedKey(e) == Ok(Zeros(16))

\* A check that lets a passphrase of 15 characters pass.
MasterKeyOf15(e) ==
    IF ~Truthy(e, MASTER_KEY) \/ Len(e[MASTER_KEY]) < 15
    THEN Err("Error", <<"The 'GITOPS_SECRETS_MASTER_KEY' environment variable must be set to a string of 16 characters or more">>)
    ELSE Ok(e[MASTER_KEY])

\* masterKey(): the passphrase, read from the environment at each call.
masterKey(e) ==
    IF ~Truthy(e, MASTER_KEY) \/ Len(e[MASTER_KEY]) < 16
    THEN Err("Error", <<"The 'GITOPS_SECRETS_MASTER_KEY' environment variable must be set to a string of 16 characters or more">>)
    ELSE Ok(e[MASTER_KEY])

\* deriveKey's default for iterations: Number(PBKDF2_ROUNDS).
DefaultIterations(rounds) == ToNumber(rounds)

\* deriveKey, after importKey: crypto.subtle.deriveKey with PBKDF2 over the
\* imported passphrase, the salt and the iterations, to an AES-GCM key of
\* PBKDF2_KEYLEN * 8 bits.
SubtleDeriveKey(importedKey, salt, iterations) ==
    LET count == IterationsError(iterations)
    IN  IF ~count.ok THEN count
        ELSE Ok(Pbkdf2(importedKey.data, salt, count.value, PBKDF2_KEYLEN))

\* The text encrypt returns.
Envelope(rounds, saltBase64, ivBase64, encryptedBase64) ==
    ENCODING \o <<58>> \o ToStr(rounds) \o <<58>> \o saltBase64 \o <<58>> \o ivBase64
             \o <<58>> \o encryptedBase64

\* decrypt: the text with a leading "base64:" taken off once.
EncodedData(ciphertext) ==
    IF StartsWith(ciphertext, ENCODING \o <<58>>)
    THEN Substring(ciphertext, Len(ENCODING \o <<58>>))
    ELSE ciphertext

\* A validation that lets more than 4 sections pass.
SectionsAtLeast(parts) == Len(parts) >= 4

\* decrypt: the sections of the text are acceptable.
SectionsValid(parts) == Len(parts) = 4

FormatError(parts) ==
    Err("Error", <<"Encrypted payload invalid. Expected 4 sections but got ", ToString(Len(parts))>>)

\* decrypt: the rounds section as a number.
\* The rounds taken from the module's default instead of the envelope.
RoundsOfDefault(section) == ToNumber(PBKDF2_ROUNDS)

Rounds(section) == ParseInt10(section)

\* decrypt's catch: any error is thrown again as one Error.
DecryptionFailed(error) == Err("Error", <<"Decryption failed: ">> \o error.message)

\* Whether process.env is there: the module reads it while it is loaded, so
\* it is wherever the module's functions can be called.
ProcessEnvAvailable == TRUE

\* getEnvObject(target): which mapping the target stands for, or an error.
getEnvObject(target, meta) ==
    IF meta = "undefined" THEN
        IF ProcessEnvAvailable THEN Ok("process.env")
        ELSE Err("Error", <<"process.env is not available in this environment">>)
    ELSE IF target = PROCESS THEN
        IF ProcessEnvAvailable THEN Ok("process.env")
        ELSE Err("Error", <<"process.env is not available in this environment">>)
    ELSE IF target = IMPORT_META THEN
        IF meta = "env" THEN Ok("import.meta.env")
        ELSE Err("Error", <<"import.meta.env is not available in this environment">>)
    ELSE Err("Error", <<"Unsupported environment target: ", target>>)

\* Loops that write to process.env whatever the target is.
WriteProcessOnly(target, meta) == "process.env"

\* mergeSecrets' loops: the mapping each entry of the payload is written
\* to, "none" when the loop body writes nothing.
WriteTarget(target, meta) ==
    IF meta = "undefined" THEN (IF ProcessEnvAvailable THEN "process.env" ELSE "none")
    ELSE IF target = PROCESS /\ ProcessEnvAvailable THEN "process.env"
    ELSE IF target = IMPORT_META THEN "import.meta.env"
    ELSE "none"

\* An assignment that keeps the value of a key that is already set.
RECURSIVE AssignAbsent(_, _)
AssignAbsent(e, entries) ==
    IF Len(entries) = 0 THEN e
    ELSE IF entries[1][1] \in DOMAIN e THEN AssignAbsent(e, Tail(entries))
    ELSE AssignAbsent(Put(e, entries[1][1], ToStr(entries[1][2])), Tail(entries))

\* An assignment that leaves process.env with the payload's keys alone.
AssignReplacing(e, entries) ==
    [k \in {entries[i][1] : i \in 1..Len(entries)} |->
        ToStr((CHOOSE x \in {entries[i] : i \in 1..Len(entries)} : x[1] = k)[2])]

\* process.env after process.env[key] = value for each entry in turn: the
\* value is stored as a string.
RECURSIVE AssignProcessEnv(_, _)
AssignProcessEnv(e, entries) ==
    IF Len(entries) = 0 THEN e
    ELSE AssignProcessEnv(Put(e, entries[1][1], ToStr(entries[1][2])), Tail(entries))

\* import.meta.env after import.meta.env[key] = value for each entry.
RECURSIVE AssignMetaEnv(_, _)
AssignMetaEnv(m, entries) ==
    IF Len(entries) = 0 THEN m
    ELSE AssignMetaEnv(Put(m, entries[1][1], entries[1][2]), Tail(entries))

----------------------------------------------------------------------------
(* Calls. Each caller has at most one call of the module in progress; an   *)
(* async function runs from one await to the next in one step. The record  *)
(* of a call holds its argument, its local variables, the promise it       *)
(* awaits (pending), how often it has called each primitive (count), what  *)
(* it wrote with console.error (logged) and, once finished, its outcome.   *)
(* defaultRounds notes the value of PBKDF2_ROUNDS when the call began.     *)

Procs == {"p1", "p2", "p3"}

NoResult == Err("none", <<>>)

NoCount ==
    [getRandomValues |-> 0, masterKey |-> 0, atob |-> 0, importKey |-> 0,
     deriveKey |-> 0, encrypt |-> 0, decrypt |-> 0]

Idle == [op |-> "idle", pc |-> "idle"]

Call(op, arg, target, rounds0) ==
    [op |-> op, pc |-> "start", arg |-> arg, target |-> target,
     salt |-> <<>>, iv |-> <<>>, encryptedContent |-> <<>>, rounds |-> NaN,
     masterKeyString |-> <<>>, iterations |-> NaN, key |-> <<>>,
     defaultRounds |-> rounds0,
     pending |-> NoResult, inner |-> NoResult, outcome |-> NoResult,
     logged |-> <<>>, count |-> NoCount]

InFlight(c) == c.pc \notin {"idle", "done"}
CanStart(p) == ~InFlight(calls[p])

\* The call c finished with the result r.
Done(c, r) == [c EXCEPT !.pc = "done", !.pending = NoResult, !.outcome = r]

\* The count of primitive f raised by n.
Counted(c, f, n) == [c EXCEPT !.count[f] = @ + n]

\* deriveKey(masterKeyString, salt, iterations), up to its await: the
\* passphrase is encoded and given to importKey.
DeriveKeyBegin(c, masterKeyString, salt, iterations) ==
    [Counted(c, "importKey", 1) EXCEPT
        !.pc = "importKey",
        !.masterKeyString = masterKeyString,
        !.salt = salt,
        !.iterations = iterations,
        !.pending = ImportKey(TextEncode(masterKeyString))]

\* encrypt(secrets), up to its first await: salt and iv are drawn, then the
\* passphrase is read and deriveKey begins with the default iterations.
EncryptBegin(c, e, rounds, r1, r2) ==
    LET salt == GetRandomValues(AES_SALT_BYTES, r1)
        iv == GetRandomValues(AES_IV_BYTES, r2)
        drawn == [Counted(c, "getRandomValues", 2) EXCEPT !.salt = salt, !.iv = iv]
        mk == masterKey(e)
        read == Counted(drawn, "masterKey", 1)
    IN  IF ~mk.ok THEN Done(read, mk)
        ELSE DeriveKeyBegin(read, mk.value, salt, DefaultIterations(rounds))

\* The records when caller p begins an encrypt call: p's record is the new
\* call, and the results of calls finished before it are forgotten.
encrypt(p, secrets, r1, r2) ==
    /\ CanStart(p)
    /\ calls' = [q \in Procs |->
                    IF q = p
                    THEN EncryptBegin(Call("encrypt", secrets, PROCESS, PBKDF2_ROUNDS),
                                      env, PBKDF2_ROUNDS, r1, r2)
                    ELSE IF InFlight(calls[q]) THEN calls[q] ELSE Idle]
    /\ UNCHANGED <<env, metaEnv, importMeta, PBKDF2_ROUNDS>>

\* A deriveKey that derives the key a second time.
DeriveKeyTwice(c) ==
    [Counted(c, "deriveKey", 2) EXCEPT
        !.pc = "deriveKey",
        !.pending = SubtleDeriveKey(c.pending.value, c.salt, c.iterations)]

\* deriveKey resumes when importKey has settled: it returns the promise of
\* crypto.subtle.deriveKey, which its caller awaits.
DeriveKeyImported(c) ==
    [Counted(c, "deriveKey", 1) EXCEPT
        !.pc = "deriveKey",
        !.pending = SubtleDeriveKey(c.pending.value, c.salt, c.iterations)]

deriveKey(p) ==
    /\ calls[p].pc = "importKey"
    /\ calls' = [calls EXCEPT ![p] = DeriveKeyImported(@)]
    /\ UNCHANGED <<env, metaEnv, importMeta, PBKDF2_ROUNDS>>

\* encrypt resumes with the key (or deriveKey's error, which it does not
\* catch): the text is encoded and given to the cipher.
EncryptDerived(c) ==
    IF ~c.pending.ok THEN Done(c, c.pending)
    ELSE [Counted(c, "encrypt", 1) EXCEPT
            !.pc = "cipher",
            !.key = c.pending.value,
            !.pending = AesGcmEncrypt(c.pending.value, c.iv, TextEncode(c.arg))]

encryptDerived(p) ==
    /\ calls[p].op = "encrypt" /\ calls[p].pc = "deriveKey"
    /\ calls' = [calls EXCEPT ![p] = EncryptDerived(@)]
    /\ UNCHANGED <<env, metaEnv, importMeta, PBKDF2_ROUNDS>>

\* A return that reads the rounds from the environment as it is by then.
EncryptReturnLate(c, rounds) ==
    IF ~c.pending.ok THEN Done(c, c.pending)
    ELSE Done(c, Ok(Envelope(LoadRounds(env), uint8ArrayToBase64(c.salt),
                             uint8ArrayToBase64(c.iv), uint8ArrayToBase64(c.pending.value))))

\* encrypt resumes with the cipher's output and returns the envelope.
EncryptReturn(c, rounds) ==
    IF ~c.pending.ok THEN Done(c, c.pending)
    ELSE Done(c, Ok(Envelope(rounds, uint8ArrayToBase64(c.salt), uint8ArrayToBase64(c.iv),
                             uint8ArrayToBase64(c.pending.value))))

encryptReturn(p) ==
    /\ calls[p].op = "encrypt" /\ calls[p].pc = "cipher"
    /\ calls' = [calls EXCEPT ![p] = EncryptReturn(@, PBKDF2_ROUNDS)]
    /\ UNCHANGED <<env, metaEnv, importMeta, PBKDF2_ROUNDS>>

\* A decrypt call ends with result r: a call of decrypt itself is finished;
\* inside loadSecrets the result settles the promise loadSecrets awaits.
Finish(c, r) ==
    IF c.op = "loadSecrets"
    THEN [c EXCEPT !.pc = "decrypted", !.pending = NoResult, !.inner = r]
    ELSE Done(c, r)

\* decrypt(ciphertext), up to its first await. The sections are counted;
\* the rounds are parsed and the three sections decoded outside the try, so
\* an error of atob leaves as it is; inside the try the passphrase is read
\* and deriveKey begins with the rounds of the envelope.
DecryptBegin(c, e) ==
    LET parts == Split(EncodedData(c.arg), 58)
        rounds == Rounds(parts[1])
        salt == base64ToUint8Array(parts[2])
        iv == base64ToUint8Array(parts[3])
        encryptedContent == base64ToUint8Array(parts[4])
        mk == masterKey(e)
        parsed == [c EXCEPT !.rounds = rounds]
    IN  IF ~SectionsValid(parts) THEN Finish(c, FormatError(parts))
        ELSE IF ~salt.ok THEN Finish(Counted(parsed, "atob", 1), salt)
        ELSE IF ~iv.ok THEN Finish(Counted(parsed, "atob", 2), iv)
        ELSE IF ~encryptedContent.ok THEN Finish(Counted(parsed, "atob", 3), encryptedContent)
        ELSE LET decoded == [Counted(Counted(parsed, "atob", 3), "masterKey", 1) EXCEPT
                                !.iv = iv.bytes,
                                !.salt = salt.bytes,
                                !.encryptedContent = encryptedContent.bytes]
             IN  IF ~mk.ok THEN Finish(decoded, DecryptionFailed(mk.error))
                 ELSE DeriveKeyBegin(decoded, mk.value, salt.bytes, rounds)

decrypt(p, ciphertext) ==
    /\ CanStart(p)
    /\ calls' = [calls EXCEPT ![p] =
                    DecryptBegin(Call("decrypt", ciphertext, PROCESS, PBKDF2_ROUNDS), env)]
    /\ UNCHANGED <<env, metaEnv, importMeta, PBKDF2_ROUNDS>>

\* decrypt resumes with the key and gives the content to the cipher; an
\* error of deriveKey is caught and wrapped.
DecryptDerived(c) ==
    IF ~c.pending.ok THEN Finish(c, DecryptionFailed(c.pending.error))
    ELSE [Counted(c, "decrypt", 1) EXCEPT
            !.pc = "cipher",
            !.key = c.pending.value,
            !.pending = AesGcmDecrypt(c.pending.value, c.iv, c.encryptedContent)]

decryptDerived(p) ==
    /\ calls[p].op \in {"decrypt", "loadSecrets"} /\ calls[p].pc = "deriveKey"
    /\ calls' = [calls EXCEPT ![p] = DecryptDerived(@)]
    /\ UNCHANGED <<env, metaEnv, importMeta, PBKDF2_ROUNDS>>

\* decrypt resumes with the cipher's output and returns it decoded; an
\* error of the cipher is caught and wrapped.
DecryptReturn(c) ==
    IF ~c.pending.ok THEN Finish(c, DecryptionFailed(c.pending.error))
    ELSE Finish(c, Ok(TextDecode(c.pending.value)))

decryptReturn(p) ==
    /\ calls[p].op \in {"decrypt", "loadSecrets"} /\ calls[p].pc = "cipher"
    /\ calls' = [calls EXCEPT ![p] = DecryptReturn(@)]
    /\ UNCHANGED <<env, metaEnv, importMeta, PBKDF2_ROUNDS>>

\* A merge that stops after the first entry of the payload.
MergeFirstEntry(payload, target, e, m, meta) ==
    LET envObject == getEnvObject(target, meta)
        entries == ObjectEntries(payload)
        to == WriteTarget(target, meta)
    IN  IF ~envObject.ok THEN [result |-> envObject, env |-> e, metaEnv |-> m]
        ELSE IF ~entries.ok THEN [result |-> entries, env |-> e, metaEnv |-> m]
        ELSE [result |-> envObject,
              env |-> IF to = "process.env"
                      THEN AssignProcessEnv(e, SubSeq(entries.value, 1, 1)) ELSE e,
              metaEnv |-> IF to = "import.meta.env"
                          THEN AssignMetaEnv(m, SubSeq(entries.value, 1, 1)) ELSE m]

\* mergeSecrets(payload, target) as a function of the two mappings: its
\* result, and the mappings after it. getEnvObject comes first and may
\* throw; Object.entries throws before anything is written.
MergeSecrets(payload, target, e, m, meta) ==
    LET envObject == getEnvObject(target, meta)
        entries == ObjectEntries(payload)
        to == WriteTarget(target, meta)
    IN  IF ~envObject.ok THEN [result |-> envObject, env |-> e, metaEnv |-> m]
        ELSE IF ~entries.ok THEN [result |-> entries, env |-> e, metaEnv |-> m]
        ELSE [result |-> envObject,
              env |-> IF to = "process.env" THEN AssignProcessEnv(e, entries.value) ELSE e,
              metaEnv |-> IF to = "import.meta.env" THEN AssignMetaEnv(m, entries.value) ELSE m]

\* mergeSecrets is synchronous: the whole call is one step.
mergeSecrets(p, payload, target) ==
    /\ CanStart(p)
    /\ LET merged == MergeSecrets(payload, target, env, metaEnv, importMeta)
       IN  /\ calls' = [calls EXCEPT ![p] =
                           Done(Call("mergeSecrets", payload, target, PBKDF2_ROUNDS),
                                merged.result)]
           /\ env' = merged.env
           /\ metaEnv' = merged.metaEnv
    /\ UNCHANGED <<importMeta, PBKDF2_ROUNDS>>

\* loadSecrets(encryptedSecrets, target) begins by calling decrypt.
loadSecrets(p, encryptedSecrets, target) ==
    /\ CanStart(p)
    /\ calls' = [calls EXCEPT ![p] =
                    DecryptBegin(Call("loadSecrets", encryptedSecrets, target, PBKDF2_ROUNDS),
                                 env)]
    /\ UNCHANGED <<env, metaEnv, importMeta, PBKDF2_ROUNDS>>

\* loadSecrets(encryptedSecrets), called without a target: the parameter
\* takes its default, EnvTarget.PROCESS.
loadSecretsDefault(p, encryptedSecrets) == loadSecrets(p, encryptedSecrets, PROCESS)

\* loadSecrets' catch: the error is written to console.error and the call
\* ends as getEnvObject(target) ends, which may throw in its turn.
LoadSecretsCatch(c, error, meta) ==
    [Done(c, getEnvObject(c.target, meta)) EXCEPT
        !.logged = <<"Failed to load secrets:", error>>]

\* loadSecrets resumes when decrypt has settled: the text is parsed and the
\* payload merged; an error of decrypt, JSON.parse or mergeSecrets goes to
\* the catch.
loadSecretsDecrypted(p) ==
    /\ calls[p].op = "loadSecrets" /\ calls[p].pc = "decrypted"
    /\ IF ~calls[p].inner.ok
       THEN /\ calls' = [calls EXCEPT ![p] = LoadSecretsCatch(@, @.inner.error, importMeta)]
            /\ UNCHANGED <<env, metaEnv>>
       ELSE \E secretsPayload \in {JsonParse(calls[p].inner.value)} :
               IF ~secretsPayload.ok
               THEN /\ calls' = [calls EXCEPT ![p] =
                                    LoadSecretsCatch(@, secretsPayload.error, importMeta)]
                    /\ UNCHANGED <<env, metaEnv>>
               ELSE \E merged \in {MergeSecrets(secretsPayload.value, calls[p].target,
                                                 env, metaEnv, importMeta)} :
                       /\ calls' = [calls EXCEPT ![p] =
                                        IF merged.result.ok THEN Done(@, merged.result)
                                        ELSE LoadSecretsCatch(@, merged.result.error,
                                                              importMeta)]
                       /\ env' = merged.env
                       /\ metaEnv' = merged.metaEnv
    /\ UNCHANGED <<importMeta, PBKDF2_ROUNDS>>

\* Code outside the module sets or deletes a variable of process.env.
SetEnv(k, v) ==
    /\ env' = Put(env, k, v)
    /\ UNCHANGED <<metaEnv, importMeta, PBKDF2_ROUNDS, calls>>

DeleteEnv(k) ==
    /\ k \in DOMAIN env
    /\ env' = Remove(env, k)
    /\ UNCHANGED <<metaEnv, importMeta, PBKDF2_ROUNDS, calls>>

\* The module is loaded again (a new process, or the module registry is
\* reset): its constant is evaluated anew. The calls of the old instance
\* have all finished.
Reload ==
    /\ \A p \in Procs : ~InFlight(calls[p])
    /\ PBKDF2_ROUNDS' = LoadRounds(env)
    /\ UNCHANGED <<env, metaEnv, importMeta, calls>>

----------------------------------------------------------------------------
(* Encrypting and decrypting, one call at a time. p1 encrypts, p2 decrypts *)
(* what p1 returned, as it is, without its prefix or with one byte of the  *)
(* ciphertext changed, or a text that is no envelope of the module; code   *)
(* outside changes the passphrase between the calls.                       *)

\* The largest seed of the random source: getRandomValues fills an array
\* from one of the seeds 0 .. MaxSeed.
MaxSeed == 1

KeyA ==
    Str(<<"t", "e", "s", "t", "-", "m", "a", "s", "t", "e", "r", "-", "k", "e", "y", "-",
          "1", "6", "c", "h", "a", "r", "s", "+">>)
KeyB == Str(<<"0", "1", "2", "3", "4", "5", "6", "7", "8", "9", "a", "b", "c", "d", "e", "f">>)
KeyShort == Str(<<"0", "1", "2", "3", "4", "5", "6", "7", "8", "9", "a", "b", "c", "d", "e">>)

Passphrases == {KeyA, KeyB, KeyShort, <<>>}

\* Texts to encrypt: empty, ASCII, two bytes in UTF-8, a leading U+FEFF,
\* and a surrogate without its pair.
Plaintexts ==
    {<<>>, Str(<<"K", "=", "1">>), <<233>>, <<65279, 97>>, <<55296>>}

\* Texts that no encrypt call returned: too few and too many sections; a
\* salt that is no base64; a content shorter than a tag; zero rounds;
\* rounds that are no number; an empty iv.
Malformed ==
    {<<>>,
     Str(<<"a", ":", "b", ":", "c">>),
     Str(<<"b", "a", "s", "e", "6", "4", ":", "1", ":", "2", ":", "3", ":", "4", ":", "5">>),
     Str(<<"5", "0", "0", "0", ":", "!", "!", "!", ":", "A", "A", "A", "A", ":",
           "A", "A", "A", "A">>),
     Str(<<"5", "0", "0", "0", ":", "A", "A", "A", "A", ":", "A", "A", "A", "A", ":",
           "A", "A", "A", "A">>),
     Str(<<"0", ":", "A", "A", "A", "A", ":", "A", "A", "A", "A", ":", "A", "A", "A", "A">>),
     Str(<<"a", "b", "c", ":", "A", "A", "A", "A", ":", "A", "A", "A", "A", ":",
           "A", "A", "A", "A">>),
     Str(<<"5", "0", "0", "0", ":", "A", "A", "A", "A", ":", ":", "A", "A", "A", "A">>)}

\* The amounts a changed byte differs by.
Deltas == {1, 128}

\* The bytes of the last section of envelope s.
Content(s) == base64ToUint8Array(Split(EncodedData(s), 58)[4]).bytes

\* Envelope s with byte i of its content changed by d.
Tamper(s, i, d) ==
    LET parts == Split(EncodedData(s), 58)
        changed == [Content(s) EXCEPT ![i] = (@ + d) % 256]
    IN  ENCODING \o <<58>> \o
        Join(<<parts[1], parts[2], parts[3], uint8ArrayToBase64(changed)>>, 58)

\* What a caller holding envelope s may hand to decrypt.
Variants(s) ==
    {s, Substring(s, Len(ENCODING) + 1)}
        \cup {Tamper(s, i, d) : i \in 1..Len(Content(s)), d \in Deltas}

\* The envelopes the finished encrypt calls returned.
Returned ==
    {calls[q].outcome.value :
        q \in {r \in Procs : calls[r].op = "encrypt" /\ calls[r].pc = "done"
                                /\ calls[r].outcome.ok}}

Quiet == \A q \in Procs : ~InFlight(calls[q])

InitCrypto ==
    /\ env = [k \in {MASTER_KEY} |-> KeyA]
    /\ metaEnv = <<>>
    /\ importMeta = "undefined"
    /\ PBKDF2_ROUNDS = LoadRounds(env)
    /\ calls = [p \in Procs |-> Idle]

\* p1 encrypts any number of times and the passphrase changes in between;
\* then p2 decrypts once, which ends the run.
NextCrypto ==
    \/ /\ Quiet /\ calls["p2"].pc = "idle"
       /\ \E secrets \in Plaintexts, r1, r2 \in 0..MaxSeed : encrypt("p1", secrets, r1, r2)
    \/ /\ Quiet /\ calls["p2"].pc = "idle"
       /\ \E s \in Malformed \cup UNION {Variants(t) : t \in Returned} : decrypt("p2", s)
    \/ \E p \in Procs : deriveKey(p)
    \/ \E p \in Procs : encryptDerived(p)
    \/ \E p \in Procs : encryptReturn(p)
    \/ \E p \in Procs : decryptDerived(p)
    \/ \E p \in Procs : decryptReturn(p)
    \/ /\ Quiet /\ calls["p2"].pc = "idle"
       /\ \E v \in Passphrases : SetEnv(MASTER_KEY, v)
    \/ /\ Quiet /\ calls["p2"].pc = "idle"
       /\ DeleteEnv(MASTER_KEY)

SpecCrypto == InitCrypto /\ [][NextCrypto]_vars

----------------------------------------------------------------------------
(* Properties of encrypt and decrypt.                                      *)

\* r is an error whose message starts with 'Decryption failed: '.
IsDecryptionFailed(r) ==
    /\ ~r.ok
    /\ Len(r.error.message) >= 1
    /\ r.error.message[1] = "Decryption failed: "

\* r is masterKey's configuration error.
IsConfigurationError(r) ==
    /\ ~r.ok
    /\ r.error.message =
        <<"The 'GITOPS_SECRETS_MASTER_KEY' environment variable must be set to a string of 16 characters or more">>

\* The finished calls of operation op.
Finished(op) == {p \in Procs : calls[p].op = op /\ calls[p].pc = "done"}

\* The text after at most one leading 'base64:', and the number of
\* segments it splits into on ':'.
Remainder(s) ==
    IF Len(s) >= 7 /\ SubSeq(s, 1, 7) = Str(<<"b", "a", "s", "e", "6", "4", ":">>)
    THEN SubSeq(s, 8, Len(s))
    ELSE s
Segments(s) ==
    LET r == Remainder(s)
    IN  1 + Cardinality({i \in 1..Len(r) : r[i] = 58})

\* A passphrase masterKey accepts.
ValidPassphrase(e) == MASTER_KEY \in DOMAIN e /\ Len(e[MASTER_KEY]) >= 16

\* C4 as stated: an encrypt call that failed with the configuration error
\* has called the random source zero times.
C4_PassphraseBeforeRandomness ==
    \A p \in Finished("encrypt") :
        IsConfigurationError(calls[p].outcome) => calls[p].count.getRandomValues = 0

\* An encrypt call failed with the configuration error.
C4_Witness ==
    \E p \in Finished("encrypt") :
        /\ IsConfigurationError(calls[p].outcome)
        /\ calls[p].count.getRandomValues = 2

\* C5 as stated: a decrypt call on an envelope of exactly 4 segments that
\* fails, fails with an error whose message starts with 'Decryption failed: '.
C5_UniformDecryptionError ==
    \A p \in Finished("decrypt") :
        (Segments(calls[p].arg) = 4 /\ ~calls[p].outcome.ok)
            => IsDecryptionFailed(calls[p].outcome)

\* A decrypt call on an envelope of 4 segments ended with the error of atob.
C5_Witness ==
    \E p \in Finished("decrypt") :
        /\ Segments(calls[p].arg) = 4
        /\ ~calls[p].outcome.ok
        /\ calls[p].outcome.error.name = "InvalidCharacterError"

\* C6: a decrypt call on a text of N # 4 segments is never in progress; it
\* has failed with 'Encrypted payload invalid. Expected 4 sections but got
\* N', without reading the passphrase, decoding base64, importing or
\* deriving a key or calling the cipher.
C6_FormatValidation ==
    \A p \in Procs :
        (calls[p].op = "decrypt" /\ Segments(calls[p].arg) # 4) =>
            /\ calls[p].pc = "done"
            /\ ~calls[p].outcome.ok
            /\ calls[p].outcome.error.message =
                <<"Encrypted payload invalid. Expected 4 sections but got ",
                  ToString(Segments(calls[p].arg))>>
            /\ calls[p].count = NoCount

\* decrypt failed on a text of 5 segments behind the prefix.
C6_Witness ==
    \E p \in Finished("decrypt") :
        /\ Segments(calls[p].arg) = 5
        /\ StartsWith(calls[p].arg, ENCODING \o <<58>>)
        /\ calls[p].outcome.error.message =
            <<"Encrypted payload invalid. Expected 4 sections but got ", "5">>

\* Envelope t is envelope s with exactly one byte of its content changed.
OneByteChanged(s, t) ==
    LET a == Split(Remainder(s), 58)
        b == Split(Remainder(t), 58)
        before == base64ToUint8Array(a[4])
        after == base64ToUint8Array(b[4])
    IN  /\ Len(s) = Len(t) /\ s # t
        /\ Len(a) = 4 /\ Len(b) = 4
        /\ SubSeq(a, 1, 3) = SubSeq(b, 1, 3)
        /\ before.ok /\ after.ok
        /\ Len(after.bytes) = Len(before.bytes)
        /\ Cardinality({i \in 1..Len(before.bytes) : before.bytes[i] # after.bytes[i]}) = 1

\* C7: a decrypt call on an envelope encrypt returned, with one byte of the
\* content changed, fails with 'Decryption failed: ' and returns no text.
C7_TamperSensitivity ==
    \A p \in Finished("decrypt"), q \in Finished("encrypt") :
        (calls[q].outcome.ok /\ OneByteChanged(calls[q].outcome.value, calls[p].arg))
            => IsDecryptionFailed(calls[p].outcome)

\* decrypt read the passphrase encrypt read, ran the cipher on a content
\* whose last byte (of the tag) was changed, and failed.
C7_Witness ==
    \E p \in Finished("decrypt"), q \in Finished("encrypt") :
        /\ calls[q].outcome.ok
        /\ OneByteChanged(calls[q].outcome.value, calls[p].arg)
        /\ Content(calls[q].outcome.value)[Len(calls[p].encryptedContent)]
                # calls[p].encryptedContent[Len(calls[p].encryptedContent)]
        /\ calls[p].masterKeyString = calls[q].masterKeyString
        /\ calls[p].count.decrypt = 1
        /\ IsDecryptionFailed(calls[p].outcome)

\* C8: a call of encrypt or decrypt that reads the passphrase reads the
\* value the variable holds at that moment; and a decrypt call on an
\* envelope encrypt returned, which read another passphrase than that
\* encrypt call did, ends with 'Decryption failed: '.
C8_FreshPassphrase ==
    [][\A p \in Procs :
          /\ (/\ ~InFlight(calls[p])
              /\ calls'[p] # calls[p]
              /\ calls'[p].op \in {"encrypt", "decrypt"}
              /\ calls'[p].op = "encrypt" \/ Segments(calls'[p].arg) = 4)
                => /\ calls'[p].count.masterKey = 1 \/ calls'[p].count.atob < 3
                   /\ calls'[p].pc = "importKey" =>
                        /\ ValidPassphrase(env)
                        /\ calls'[p].masterKeyString = env[MASTER_KEY]
                   /\ (calls'[p].pc = "done" /\ calls'[p].count.masterKey = 1) =>
                        ~ValidPassphrase(env)
          /\ \A q \in Finished("encrypt") :
                (/\ calls[p].op = "decrypt" /\ InFlight(calls[p])
                 /\ calls'[p].pc = "done"
                 /\ calls[q].outcome.ok
                 /\ Remainder(calls[p].arg) = Remainder(calls[q].outcome.value)
                 /\ calls[p].masterKeyString # calls[q].masterKeyString)
                    => IsDecryptionFailed(calls'[p].outcome)
      ]_vars

\* encrypt read one valid passphrase, decrypt of its envelope another, and
\* decrypt failed.
C8_Witness ==
    \E p \in Finished("decrypt"), q \in Finished("encrypt") :
        /\ calls[q].outcome.ok
        /\ calls[p].arg = calls[q].outcome.value
        /\ calls[q].masterKeyString = KeyA
        /\ calls[p].masterKeyString = KeyB
        /\ env[MASTER_KEY] = KeyB
        /\ calls[p].count.decrypt = 1
        /\ IsDecryptionFailed(calls[p].outcome)

----------------------------------------------------------------------------
(* The default rounds. The passphrase stays as it is; code outside sets    *)
(* GITOPS_SECRETS_PBKDF2_ROUNDS and the module is loaded again, in any     *)
(* order; p1 encrypts, then p2 and after it p3 decrypt what p1 returned.   *)

\* Values of GITOPS_SECRETS_PBKDF2_ROUNDS: decimal digits, an exponent, a
\* hexadecimal literal, no number at all, a leading space, and a fraction.
RoundsValues ==
    {Str(<<"5", "0", "0", "0">>), Str(<<"1", "e", "3">>), Str(<<"0", "x", "1", "0">>),
     Str(<<"a", "b", "c">>), Str(<<" ", "5", "0", "0", "0">>),
     Str(<<"5", "0", "0", "0", ".", "5">>)}

\* Texts to encrypt: ASCII, and a leading U+FEFF.
RoundsPlaintexts == {Str(<<"K", "=", "1">>), <<65279, 97>>}

InitRounds ==
    /\ env = [k \in {MASTER_KEY} |-> KeyA]
    /\ metaEnv = <<>>
    /\ importMeta = "undefined"
    /\ PBKDF2_ROUNDS = LoadRounds(env)
    /\ calls = [p \in Procs |-> Idle]

NextRounds ==
    \/ /\ Quiet /\ calls["p2"].pc = "idle"
       /\ \E secrets \in RoundsPlaintexts, r \in 0..MaxSeed :
                encrypt("p1", secrets, r, MaxSeed - r)
    \/ /\ Quiet /\ calls["p2"].pc = "idle"
       /\ \E s \in Returned : decrypt("p2", s)
    \/ /\ Quiet /\ calls["p2"].pc = "done" /\ calls["p3"].pc = "idle"
       /\ \E s \in Returned : decrypt("p3", s)
    \/ \E p \in Procs : deriveKey(p)
    \/ \E p \in Procs : encryptDerived(p)
    \/ \E p \in Procs : encryptReturn(p)
    \/ \E p \in Procs : decryptDerived(p)
    \/ \E p \in Procs : decryptReturn(p)
    \/ /\ Quiet /\ calls["p3"].pc = "idle"
       /\ \E v \in RoundsValues : SetEnv(ROUNDS, v)
    \/ /\ Quiet /\ calls["p3"].pc = "idle"
       /\ DeleteEnv(ROUNDS)
    \/ /\ calls["p3"].pc = "idle"
       /\ Reload

SpecRounds == InitRounds /\ [][NextRounds]_vars

\* C1 as stated: a decrypt call on the envelope an encrypt call returned,
\* under the passphrase that call read, returns the text that was encrypted.
C1_RoundTrip ==
    \A p \in Finished("decrypt"), q \in Finished("encrypt") :
        (/\ calls[q].outcome.ok
         /\ calls[p].arg = calls[q].outcome.value
         /\ calls[p].masterKeyString = calls[q].masterKeyString)
            => calls[p].outcome = Ok(calls[q].arg)

\* encrypt ran with the default rounds '1e3' and 1000 iterations; decrypt
\* of its envelope, under the same passphrase, ran with 1 iteration.
C1_Witness ==
    \E p \in Finished("decrypt"), q \in Finished("encrypt") :
        /\ calls[q].outcome.ok
        /\ calls[p].arg = calls[q].outcome.value
        /\ calls[p].masterKeyString = calls[q].masterKeyString
        /\ calls[q].defaultRounds = JsString(Str(<<"1", "e", "3">>))
        /\ calls[q].iterations = Finite(1000, FALSE)
        /\ calls[p].iterations = Finite(1, FALSE)
        /\ IsDecryptionFailed(calls[p].outcome)

\* C9: a decrypt call derives its key with the rounds and the salt of the
\* envelope; two decrypt calls on one envelope end alike whatever the
\* default rounds are at each, so an envelope that decrypts to its text
\* under the default rounds it was made under still does under any other;
\* and an envelope made under the default rounds of the source or under
\* '5000' decrypts to its text under any default rounds.
C9_RoundsEmbedding ==
    \A p \in Finished("decrypt") :
        LET parts == Split(Remainder(calls[p].arg), 58)
        IN  /\ calls[p].count.deriveKey = 1 =>
                    /\ calls[p].iterations = ParseInt10(parts[1])
                    /\ calls[p].salt = base64ToUint8Array(parts[2]).bytes
            /\ \A q \in Finished("decrypt") :
                    calls[q].arg = calls[p].arg => calls[q].outcome = calls[p].outcome
            /\ \A q \in Finished("encrypt"), r \in Finished("decrypt") :
                    (/\ calls[q].outcome.ok
                     /\ calls[p].arg = calls[q].outcome.value
                     /\ calls[r].arg = calls[q].outcome.value
                     /\ calls[p].defaultRounds = calls[q].defaultRounds
                     /\ calls[p].outcome = Ok(calls[q].arg))
                        => calls[r].outcome = Ok(calls[q].arg)
            /\ \A q \in Finished("encrypt") :
                    (/\ calls[q].outcome.ok
                     /\ calls[p].arg = calls[q].outcome.value
                     /\ calls[q].arg = Str(<<"K", "=", "1">>)
                     /\ calls[q].defaultRounds \in
                            {JsNumber(Finite(DEFAULT_ROUNDS, FALSE)),
                             JsString(Str(<<"5", "0", "0", "0">>))})
                        => calls[p].outcome = Ok(calls[q].arg)

\* An envelope made under the default rounds '5000' was decrypted to its
\* text twice, under default rounds '1e3' and under default rounds 'abc'.
C9_Witness ==
    /\ calls["p1"].op = "encrypt" /\ calls["p1"].pc = "done"
    /\ calls["p1"].defaultRounds = JsString(Str(<<"5", "0", "0", "0">>))
    /\ calls["p2"].pc = "done" /\ calls["p3"].pc = "done"
    /\ calls["p2"].arg = calls["p1"].outcome.value
    /\ calls["p3"].arg = calls["p1"].outcome.value
    /\ calls["p2"].defaultRounds = JsString(Str(<<"1", "e", "3">>))
    /\ calls["p3"].defaultRounds = JsString(Str(<<"a", "b", "c">>))
    /\ calls["p2"].outcome = Ok(calls["p1"].arg)
    /\ calls["p3"].outcome = Ok(calls["p1"].arg)

----------------------------------------------------------------------------
(* Merging and loading, into either target and into a target the module    *)
(* does not know, where import.meta is undefined, has an env, or has none. *)

KeyOfA == Str(<<"A">>)
KeyOfB == Str(<<"B">>)
KeyOfC == Str(<<"C">>)

PayloadAB ==
    JsObject(<<<<KeyOfA, JsString(Str(<<"1">>))>>, <<KeyOfB, JsString(Str(<<"2">>))>>>>)
PayloadA == JsObject(<<<<KeyOfA, JsString(Str(<<"3">>))>>>>)
Payloads == {PayloadAB, PayloadA}

\* The JSON texts of the payloads, a text that is no JSON, and null.
JsonAB ==
    Str(<<"{", "\"", "A", "\"", ":", "\"", "1", "\"", ",", "\"", "B", "\"", ":", "\"", "2",
          "\"", "}">>)
JsonA == Str(<<"{", "\"", "A", "\"", ":", "\"", "3", "\"", "}">>)
NotJson == Str(<<"n", "o", "t", " ", "j", "s", "o", "n">>)
JsonNull == Str(<<"n", "u", "l", "l">>)
LoadTexts == {JsonAB, JsonA, NotJson, JsonNull}

Targets == {PROCESS, IMPORT_META, "worker"}

\* Texts to load that no encrypt call returned: of 3 sections, and of a
\* salt that is no base64.
LoadMalformed ==
    {Str(<<"a", ":", "b", ":", "c">>),
     Str(<<"5", "0", "0", "0", ":", "!", "!", "!", ":", "A", "A", "A", "A", ":",
           "A", "A", "A", "A">>)}

InitEnv ==
    /\ env = [k \in {MASTER_KEY, KeyOfC} |-> IF k = MASTER_KEY THEN KeyA ELSE Str(<<"9">>)]
    /\ importMeta \in {"undefined", "env", "noenv"}
    /\ metaEnv = IF importMeta = "env" THEN [k \in {KeyOfC} |-> JsString(Str(<<"9">>))]
                 ELSE <<>>
    /\ PBKDF2_ROUNDS = LoadRounds(env)
    /\ calls = [p \in Procs |-> Idle]

\* p1 and p3 merge payloads, one call at a time.
NextMerge ==
    /\ Quiet
    /\ \E p \in {"p1", "p3"}, payload \in Payloads, target \in Targets :
            mergeSecrets(p, payload, target)

SpecMerge == InitEnv /\ [][NextMerge]_vars

\* p3 encrypts one text; the passphrase may change after that; then p2 loads
\* what p3 returned, as it is or with a byte changed, or a text that is no
\* envelope, with a target or without one, one call at a time.
NextLoad ==
    \/ /\ \A p \in Procs : calls[p].pc = "idle"
       /\ \E text \in LoadTexts : encrypt("p3", text, 0, 1)
    \/ /\ Quiet /\ calls["p2"].pc = "idle" /\ calls["p3"].pc = "done"
       /\ SetEnv(MASTER_KEY, KeyB)
    \/ /\ Quiet /\ calls["p3"].pc = "done"
       /\ \E s \in LoadMalformed \cup Returned \cup {Tamper(t, 1, 1) : t \in Returned},
             target \in Targets :
                loadSecrets("p2", s, target)
    \/ /\ Quiet /\ calls["p3"].pc = "done"
       /\ \E s \in Returned : loadSecretsDefault("p2", s)
    \/ \E p \in Procs : deriveKey(p)
    \/ \E p \in Procs : encryptDerived(p)
    \/ \E p \in Procs : encryptReturn(p)
    \/ \E p \in Procs : decryptDerived(p)
    \/ \E p \in Procs : decryptReturn(p)
    \/ \E p \in Procs : loadSecretsDecrypted(p)

SpecLoad == InitEnv /\ [][NextLoad]_vars

\* The mapping a target names.
TargetMapping(target) ==
    IF target = PROCESS THEN "process.env"
    ELSE IF target = IMPORT_META THEN "import.meta.env"
    ELSE "none"

\* C2 as stated: every loadSecrets call that has finished has resolved with
\* an environment mapping.
C2_LoadSecretsTotal ==
    \A p \in Finished("loadSecrets") :
        /\ calls[p].outcome.ok
        /\ calls[p].outcome.value \in {"process.env", "import.meta.env"}

\* A loadSecrets call with a target the module does not know was rejected
\* with the error of getEnvObject.
C2_Witness ==
    \E p \in Finished("loadSecrets") :
        /\ calls[p].target = "worker"
        /\ ~calls[p].outcome.ok
        /\ calls[p].outcome.error.message = <<"Unsupported environment target: ", "worker">>

\* C3 as stated: when loadSecrets resumes after a decryption that failed or
\* with a text that is no JSON, it logs 'Failed to load secrets', leaves
\* both mappings as they are and returns the mapping of its target.
C3_FailurePath ==
    [][\A p \in Procs :
          (/\ calls[p].op = "loadSecrets" /\ calls[p].pc = "decrypted"
           /\ calls'[p].pc = "done"
           /\ ~calls[p].inner.ok \/ ~JsonParse(calls[p].inner.value).ok)
            => /\ Len(calls'[p].logged) = 2
               /\ calls'[p].logged[1] = "Failed to load secrets:"
               /\ env' = env /\ metaEnv' = metaEnv
               /\ calls'[p].outcome = Ok(TargetMapping(calls[p].target))
      ]_vars

\* A loadSecrets call whose decryption failed logged the error and was
\* rejected: import.meta exists without an env, the target is IMPORT_META.
C3_Witness ==
    \E p \in Finished("loadSecrets") :
        /\ IsDecryptionFailed(calls[p].inner)
        /\ calls[p].logged = <<"Failed to load secrets:", calls[p].inner.error>>
        /\ calls[p].target = IMPORT_META
        /\ importMeta = "noenv"
        /\ ~calls[p].outcome.ok

\* The target names a mapping that exists.
Available(target) ==
    \/ target = PROCESS
    \/ target = IMPORT_META /\ importMeta = "env"

\* C10: a mergeSecrets call on an available target sets every key of the
\* payload to the payload's value, keeps every other key of the target
\* mapping with its value, and leaves the other mapping alone; so after
\* any number of merges a key holds the value of the last merge that had it.
C10_MergeSemantics ==
    [][\A p \in Procs, payload \in Payloads, target \in Targets :
          (mergeSecrets(p, payload, target) /\ Available(target)) =>
              LET keys == {payload.entries[i][1] : i \in 1..Len(payload.entries)}
                  given(k) == (CHOOSE e \in {payload.entries[i] : i \in 1..Len(payload.entries)} :
                                    e[1] = k)[2]
              IN  /\ calls'[p].outcome = Ok(TargetMapping(target))
                  /\ target = PROCESS =>
                        /\ DOMAIN env' = DOMAIN env \cup keys
                        /\ \A k \in keys : env'[k] = given(k).s
                        /\ \A k \in DOMAIN env \ keys : env'[k] = env[k]
                        /\ metaEnv' = metaEnv
                  /\ target = IMPORT_META =>
                        /\ DOMAIN metaEnv' = DOMAIN metaEnv \cup keys
                        /\ \A k \in keys : metaEnv'[k] = given(k)
                        /\ \A k \in DOMAIN metaEnv \ keys : metaEnv'[k] = metaEnv[k]
                        /\ env' = env
      ]_vars

\* The merge of {A: '3'} into process.env has replaced the A of an earlier
\* merge of {A: '1', B: '2'} and kept its B, and C as it was at the start.
C10_Witness ==
    /\ calls["p1"].op = "mergeSecrets" /\ calls["p1"].pc = "done"
    /\ calls["p1"].arg = PayloadA /\ calls["p1"].target = PROCESS
    /\ calls["p1"].outcome = Ok("process.env")
    /\ calls["p3"].op = "mergeSecrets" /\ calls["p3"].arg = PayloadAB
    /\ calls["p3"].target = PROCESS
    /\ env[KeyOfA] = Str(<<"3">>)
    /\ KeyOfB \in DOMAIN env /\ env[KeyOfB] = Str(<<"2">>)
    /\ env[KeyOfC] = Str(<<"9">>)

----------------------------------------------------------------------------
(* Which mapping a merge writes to.                                        *)

\* C11 as stated: a mergeSecrets call writes only into the mapping of its
\* target, and where that mapping does not exist it fails and leaves both
\* mappings as they are.
C11_TargetResolution ==
    [][\A p \in Procs, payload \in Payloads, target \in Targets :
          mergeSecrets(p, payload, target) =>
              IF Available(target)
              THEN /\ target = PROCESS => metaEnv' = metaEnv
                   /\ target = IMPORT_META => env' = env
              ELSE /\ ~calls'[p].outcome.ok
                   /\ env' = env /\ metaEnv' = metaEnv
      ]_vars

\* Where import.meta is undefined, mergeSecrets({A: '1', B: '2'},
\* IMPORT_META) has returned process.env with A and B written into it.
C11_Witness ==
    /\ importMeta = "undefined"
    /\ calls["p1"].op = "mergeSecrets" /\ calls["p1"].pc = "done"
    /\ calls["p1"].arg = PayloadAB /\ calls["p1"].target = IMPORT_META
    /\ calls["p1"].outcome = Ok("process.env")
    /\ KeyOfA \in DOMAIN env /\ env[KeyOfA] = Str(<<"1">>)
    /\ KeyOfB \in DOMAIN env /\ env[KeyOfB] = Str(<<"2">>)

----------------------------------------------------------------------------
(* The envelope encrypt returns.                                           *)

\* t is base64 of the standard alphabet with '=' padding: groups of four
\* digits, the last group ending in at most two '='.
IsPaddedBase64(t) ==
    /\ Len(t) % 4 = 0
    /\ \A i \in 1..Len(t) :
            \/ B64Value(t[i]) >= 0
            \/ /\ t[i] = 61
               /\ i >= Len(t) - 1
               /\ i = Len(t) - 1 => t[Len(t)] = 61

\* C12 as stated: the envelope of a successful encrypt call is 'base64:'
\* and four segments: decimal digits, then the padded base64 of the 8 bytes
\* of the salt, of the 12 bytes of the iv and of the cipher's output.
C12_EnvelopeFormat ==
    \A q \in Finished("encrypt") :
        calls[q].outcome.ok =>
            LET s == calls[q].outcome.value
                parts == Split(Remainder(s), 58)
            IN  /\ StartsWith(s, ENCODING \o <<58>>)
                /\ Len(parts) = 4
                /\ Len(parts[1]) > 0
                /\ \A i \in 1..Len(parts[1]) : IsDigit(parts[1][i])
                /\ \A n \in 2..4 : IsPaddedBase64(parts[n])
                /\ base64ToUint8Array(parts[2]) = [ok |-> TRUE, bytes |-> calls[q].salt]
                /\ Len(calls[q].salt) = 8
                /\ base64ToUint8Array(parts[3]) = [ok |-> TRUE, bytes |-> calls[q].iv]
                /\ Len(calls[q].iv) = 12
                /\ base64ToUint8Array(parts[4]).bytes =
                        AesGcmEncrypt(calls[q].key, calls[q].iv, TextEncode(calls[q].arg)).value

\* encrypt succeeded under the default rounds '1e3' and returned an envelope
\* whose first segment is '1e3'; the rest of it is as the claim says.
C12_Witness ==
    \E q \in Finished("encrypt") :
        /\ calls[q].outcome.ok
        /\ calls[q].defaultRounds = JsString(Str(<<"1", "e", "3">>))
        /\ LET parts == Split(Remainder(calls[q].outcome.value), 58)
           IN  /\ Len(parts) = 4
               /\ parts[1] = Str(<<"1", "e", "3">>)
               /\ \A n \in 2..4 : IsPaddedBase64(parts[n])
               /\ Len(base64ToUint8Array(parts[2]).bytes) = 8
               /\ Len(base64ToUint8Array(parts[3]).bytes) = 12

----------------------------------------------------------------------------
(* The passphrase check.                                                   *)

\* C13: whenever an encrypt call, or a decrypt call on a text of 4 segments,
\* begins while the passphrase variable is absent, empty or shorter than 16
\* characters, the call ends at once with an error and no result; when the
\* variable holds 16 characters or more and the call reads it, the check
\* passes and the call goes on to import that passphrase. This holds of
\* every call, whatever calls succeeded before it.
C13_PassphraseThreshold ==
    [][\A p \in Procs :
          (/\ ~InFlight(calls[p])
           /\ calls'[p] # calls[p]
           /\ calls'[p].op \in {"encrypt", "decrypt"}
           /\ calls'[p].op = "encrypt" \/ Segments(calls'[p].arg) = 4)
            => /\ (MASTER_KEY \notin DOMAIN env \/ Len(env[MASTER_KEY]) <= 15) =>
                    /\ calls'[p].pc = "done"
                    /\ ~calls'[p].outcome.ok
                    /\ calls'[p].count.importKey = 0
               /\ (/\ MASTER_KEY \in DOMAIN env
                   /\ Len(env[MASTER_KEY]) >= 16
                   /\ calls'[p].count.masterKey = 1) =>
                    /\ calls'[p].pc = "importKey"
                    /\ calls'[p].masterKeyString = env[MASTER_KEY]
      ]_vars

\* encrypt succeeded under a passphrase; the variable was then removed, and
\* decrypt of the envelope it had returned failed at the passphrase check.
C13_Witness ==
    /\ MASTER_KEY \notin DOMAIN env
    /\ calls["p1"].op = "encrypt" /\ calls["p1"].pc = "done"
    /\ calls["p1"].outcome.ok
    /\ calls["p2"].op = "decrypt" /\ calls["p2"].pc = "done"
    /\ calls["p2"].arg = calls["p1"].outcome.value
    /\ calls["p2"].count.masterKey = 1
    /\ calls["p2"].count.importKey = 0
    /\ ~calls["p2"].outcome.ok
    /\ calls["p2"].outcome.error.message =
        <<"Decryption failed: ",
          "The 'GITOPS_SECRETS_MASTER_KEY' environment variable must be set to a string of 16 characters or more">>

----------------------------------------------------------------------------
(* Loading an envelope that holds a payload.                               *)

\* The flat string mapping a JSON text of the payloads stands for.
PayloadOfText(text) == IF text = JsonAB THEN PayloadAB ELSE PayloadA

----------------------------------------------------------------------------
(* Calls of encrypt and decrypt in progress at the same time. p1 and p2    *)
(* encrypt, p3 decrypts what was returned or a text no encrypt call        *)
(* returned; a caller begins a call whenever it has none in progress, and  *)
(* code outside sets the two variables at any moment, also between the     *)
(* steps of a call.                                                        *)

ConcurrentText == Str(<<"K", "=", "1">>)

\* A text of 4 base64 segments that no encrypt call returned.
ConcurrentMalformed ==
    {Str(<<"5", "0", "0", "0", ":", "A", "A", "A", "A", ":", "A", "A", "A", "A", ":",
           "A", "A", "A", "A">>)}

InitConcurrent ==
    /\ env = [k \in {MASTER_KEY} |-> KeyA]
    /\ metaEnv = <<>>
    /\ importMeta = "undefined"
    /\ PBKDF2_ROUNDS = LoadRounds(env)
    /\ calls = [p \in Procs |-> Idle]

NextConcurrent ==
    \/ encrypt("p1", ConcurrentText, 0, MaxSeed)
    \/ encrypt("p2", ConcurrentText, MaxSeed, 0)
    \/ \E s \in Returned \cup ConcurrentMalformed : decrypt("p3", s)
    \/ \E p \in Procs : deriveKey(p)
    \/ \E p \in Procs : encryptDerived(p)
    \/ \E p \in Procs : encryptReturn(p)
    \/ \E p \in Procs : decryptDerived(p)
    \/ \E p \in Procs : decryptReturn(p)
    \/ \E v \in {KeyA, KeyB} : SetEnv(MASTER_KEY, v)
    \/ SetEnv(ROUNDS, Str(<<"5", "0", "0", "0">>))

SpecConcurrent == InitConcurrent /\ [][NextConcurrent]_vars

\* The record of call c once all the steps it has left have been taken one
\* after another, with no step of anything else in between.
RunAlone(c, rounds) ==
    LET imported == IF c.pc = "importKey" THEN DeriveKeyImported(c) ELSE c
        derived == IF imported.pc # "deriveKey" THEN imported
                   ELSE IF imported.op = "encrypt" THEN EncryptDerived(imported)
                   ELSE DecryptDerived(imported)
    IN  IF derived.pc # "cipher" THEN derived
        ELSE IF derived.op = "encrypt" THEN EncryptReturn(derived, rounds)
        ELSE DecryptReturn(derived)

\* The record call c had when its first step, up to its first await, had
\* been taken.
BeganAs(c) ==
    IF c.count.importKey = 0 THEN c
    ELSE [c EXCEPT !.pc = "importKey",
                   !.pending = ImportKey(TextEncode(c.masterKeyString)),
                   !.key = <<>>,
                   !.outcome = NoResult,
                   !.count = [c.count EXCEPT !.deriveKey = 0, !.encrypt = 0, !.decrypt = 0]]

\* C15: a call of encrypt or decrypt begins as its code runs on the
\* environment of that moment and keeps that beginning while it is in
\* progress; no step of a call changes the environment or the module's
\* constant; and whatever other calls and changes of the variables came
\* between its steps, a finished call has the outcome that its steps, run
\* alone one after another from that beginning, arrive at (looked at
\* whenever code outside sets a variable, which it can in every state).
C15_Independence ==
    [][/\ \A p \in Procs :
            /\ (/\ ~InFlight(calls[p])
                /\ calls'[p] # calls[p]
                /\ calls'[p].op = "encrypt")
                  => \E r1, r2 \in 0..MaxSeed :
                        calls'[p] = EncryptBegin(Call("encrypt", calls'[p].arg, PROCESS,
                                                      PBKDF2_ROUNDS),
                                                 env, PBKDF2_ROUNDS, r1, r2)
            /\ (/\ ~InFlight(calls[p])
                /\ calls'[p] # calls[p]
                /\ calls'[p].op = "decrypt")
                  => calls'[p] = DecryptBegin(Call("decrypt", calls'[p].arg, PROCESS,
                                                   PBKDF2_ROUNDS), env)
            /\ (InFlight(calls[p]) /\ calls[p].op \in {"encrypt", "decrypt"})
                  => BeganAs(calls'[p]) = BeganAs(calls[p])
       /\ calls' # calls =>
            /\ env' = env
            /\ metaEnv' = metaEnv
            /\ PBKDF2_ROUNDS' = PBKDF2_ROUNDS
       /\ calls' = calls =>
            \A p \in Procs :
                (calls[p].pc = "done" /\ calls[p].op \in {"encrypt", "decrypt"})
                    => calls[p].outcome
                            = RunAlone(BeganAs(calls[p]), PBKDF2_ROUNDS).outcome
      ]_vars

\* p1 and p2 began to encrypt under one passphrase; p1 returned, p3 began
\* to decrypt what p1 returned; then both variables were set to other
\* values; p3 has returned the text, and p2 is still waiting for the cipher.
C15_Witness ==
    /\ calls["p1"].op = "encrypt" /\ calls["p1"].pc = "done"
    /\ calls["p1"].outcome.ok
    /\ calls["p2"].op = "encrypt" /\ calls["p2"].pc = "cipher"
    /\ calls["p2"].masterKeyString = KeyA
    /\ calls["p3"].op = "decrypt" /\ calls["p3"].pc = "done"
    /\ calls["p3"].arg = calls["p1"].outcome.value
    /\ calls["p3"].outcome = Ok(ConcurrentText)
    /\ env[MASTER_KEY] = KeyB
    /\ ROUNDS \in DOMAIN env

----------------------------------------------------------------------------
(* When the default rounds are read, and what decrypt makes of them.       *)

\* C16 as stated: an encrypt call derives its key with the number the
\* default-rounds variable stands for when the call begins, and the rounds
\* segment of the envelope it returns is the text of that value.
C16_RoundsAtCallTime ==
    [][\A p \in Procs :
          /\ (/\ ~InFlight(calls[p])
              /\ calls'[p] # calls[p]
              /\ calls'[p].op = "encrypt"
              /\ calls'[p].pc = "importKey")
                => calls'[p].iterations = ToNumber(LoadRounds(env))
          /\ (/\ calls[p].op = "encrypt" /\ calls[p].pc = "cipher"
              /\ calls'[p].pc = "done"
              /\ calls'[p].outcome.ok)
                => Split(Remainder(calls'[p].outcome.value), 58)[1] = ToStr(LoadRounds(env))
      ]_vars

\* The variable was set to '5000' after the module had been loaded without
\* it; the encrypt call that began then has derived its key with 1000000
\* iterations.
C16_Witness ==
    /\ ROUNDS \in DOMAIN env /\ env[ROUNDS] = Str(<<"5", "0", "0", "0">>)
    /\ calls["p1"].op = "encrypt" /\ calls["p1"].pc = "cipher"
    /\ calls["p1"].defaultRounds = JsNumber(Finite(DEFAULT_ROUNDS, FALSE))
    /\ calls["p1"].iterations = Finite(DEFAULT_ROUNDS, FALSE)
    /\ calls["p1"].count.deriveKey = 1

\* The iteration count crypto.subtle.deriveKey works with, given the number
\* passed as iterations.
EffectiveIterations(n) == IterationsError(n)

\* C17 as stated: the number decrypt reads from the rounds segment of an
\* envelope encrypt returned stands for the iteration count that encrypt
\* call derived its key with.
C17_RoundsConsistency ==
    \A q \in Finished("encrypt") :
        calls[q].outcome.ok =>
            EffectiveIterations(ParseInt10(Split(Remainder(calls[q].outcome.value), 58)[1]))
                = EffectiveIterations(calls[q].iterations)

\* encrypt ran with 1000 iterations under the default rounds '1e3', and
\* decrypt of its envelope, which read 1 from the segment '1e3', has failed.
C17_Witness ==
    \E q \in Finished("encrypt"), p \in Finished("decrypt") :
        /\ calls[q].outcome.ok
        /\ calls[q].defaultRounds = JsString(Str(<<"1", "e", "3">>))
        /\ calls[q].iterations = Finite(1000, FALSE)
        /\ Split(Remainder(calls[q].outcome.value), 58)[1] = Str(<<"1", "e", "3">>)
        /\ calls[p].arg = calls[q].outcome.value
        /\ calls[p].rounds = Finite(1, FALSE)
        /\ calls[p].iterations = Finite(1, FALSE)
        /\ ~calls[p].outcome.ok

----------------------------------------------------------------------------
(* How often a call uses each primitive.                                   *)

----------------------------------------------------------------------------
(* Loads and merges into process.env in progress at the same time. p1 and  *)
(* p3 encrypt the JSON texts of two payloads that set the same keys; then  *)
(* p1 and p2 load what was returned, or a text that is no envelope, and p3 *)
(* merges a payload, each once, their steps in any order.                  *)

PayloadOther ==
    JsObject(<<<<KeyOfA, JsString(Str(<<"3">>))>>, <<KeyOfB, JsString(Str(<<"4">>))>>>>)
JsonOther ==
    Str(<<"{", "\"", "A", "\"", ":", "\"", "3", "\"", ",", "\"", "B", "\"", ":", "\"", "4",
          "\"", "}">>)

NextRace ==
    \/ /\ \A p \in Procs : calls[p].pc = "idle"
       /\ encrypt("p1", JsonAB, 0, MaxSeed)
    \/ /\ calls["p3"].pc = "idle"
       /\ calls["p1"].op = "encrypt" /\ InFlight(calls["p1"])
       /\ encrypt("p3", JsonOther, MaxSeed, 0)
    \/ /\ \A p \in Procs : ~(calls[p].op = "encrypt" /\ InFlight(calls[p]))
       /\ \/ /\ calls["p2"].pc = "idle"
             /\ \E s \in Returned \cup {Str(<<"a", ":", "b", ":", "c">>)} :
                    loadSecrets("p2", s, PROCESS)
          \/ /\ calls["p1"].op = "encrypt"
             /\ \E s \in Returned : loadSecrets("p1", s, PROCESS)
          \/ /\ calls["p3"].op = "encrypt"
             /\ \E payload \in {PayloadA, PayloadOther} : mergeSecrets("p3", payload, PROCESS)
    \/ \E p \in Procs : deriveKey(p)
    \/ \E p \in Procs : encryptDerived(p)
    \/ \E p \in Procs : encryptReturn(p)
    \/ \E p \in Procs : decryptDerived(p)
    \/ \E p \in Procs : decryptReturn(p)
    \/ \E p \in Procs : loadSecretsDecrypted(p)

SpecRace == InitEnv /\ [][NextRace]_vars

\* The calls that have merged their payload.
Merged ==
    {p \in Procs : /\ calls[p].op \in {"loadSecrets", "mergeSecrets"}
                   /\ calls[p].pc = "done"
                   /\ calls[p].outcome.ok
                   /\ calls[p].logged = <<>>}

\* The entries of the payload call c merged.
MergedEntries(c) ==
    IF c.op = "mergeSecrets" THEN c.arg.entries
    ELSE IF c.inner.value = JsonAB THEN PayloadAB.entries
    ELSE PayloadOther.entries

\* Mapping m with every entry written into it, as one whole.
WithEntries(m, entries) ==
    LET keys == {entries[i][1] : i \in 1..Len(entries)}
    IN  [k \in DOMAIN m \cup keys |->
            IF k \in keys
            THEN (CHOOSE e \in {entries[i] : i \in 1..Len(entries)} : e[1] = k)[2].s
            ELSE m[k]]

\* Mapping m after the payloads of the calls in order o, one after another.
RECURSIVE InOrder(_, _)
InOrder(m, o) ==
    IF Len(o) = 0 THEN m
    ELSE InOrder(WithEntries(m, MergedEntries(calls[o[1]])), Tail(o))

\* The orders of a set of calls.
Orders(S) ==
    {o \in [1..Cardinality(S) -> S] : \A i, j \in 1..Cardinality(S) : o[i] = o[j] => i = j}

\* C19: in every state, process.env is what it was at the start with the
\* payloads of the calls that have merged so far written into it one whole
\* payload after another, in some order of those calls; a payload is never
\* seen partly written or mixed with the writes of another call.
C19_AtomicMerges ==
    LET start == [k \in {MASTER_KEY, KeyOfC} |-> IF k = MASTER_KEY THEN KeyA ELSE Str(<<"9">>)]
    IN  \E o \in Orders(Merged) : env = InOrder(start, o)

\* Two loads and a merge, all into process.env, have finished: A is the '3'
\* that p3 merged, B the '2' of the payload that p1 or p2 loaded.
C19_Witness ==
    /\ Merged = Procs
    /\ calls["p1"].op = "loadSecrets" /\ calls["p2"].op = "loadSecrets"
    /\ calls["p1"].inner.value # calls["p2"].inner.value
    /\ calls["p3"].op = "mergeSecrets" /\ calls["p3"].arg = PayloadA
    /\ env[KeyOfA] = Str(<<"3">>)
    /\ env[KeyOfB] = Str(<<"2">>)

----------------------------------------------------------------------------
(* The passphrase across loads and merges. p3 encrypts a JSON text and p2  *)
(* decrypts what it returned; then p1 merges payloads and loads the        *)
(* envelope into process.env, any number of times, one call at a time;     *)
(* then p3 decrypts the envelope again. Nothing else writes process.env.   *)

\* A payload that has the passphrase variable among its keys.
PayloadKey == JsObject(<<<<MASTER_KEY, JsString(KeyB)>>>>)
JsonKey == <<123, 34>> \o MASTER_KEY \o <<34, 58, 34>> \o KeyB \o <<34, 125>>

NextStable ==
    \/ /\ \A p \in Procs : calls[p].pc = "idle"
       /\ \E text \in {JsonAB, JsonKey} : encrypt("p3", text, 0, MaxSeed)
    \/ /\ Quiet /\ calls["p2"].pc = "idle" /\ calls["p1"].pc = "idle"
       /\ \E s \in Returned : decrypt("p2", s)
    \/ /\ Quiet /\ calls["p2"].pc = "done" /\ calls["p3"].op = "encrypt"
       /\ \/ \E payload \in {PayloadAB, PayloadA, PayloadKey} :
                mergeSecrets("p1", payload, PROCESS)
          \/ \E s \in Returned : loadSecrets("p1", s, PROCESS)
    \/ /\ Quiet /\ calls["p2"].pc = "done" /\ calls["p3"].op = "encrypt"
       /\ decrypt("p3", calls["p2"].arg)
    \/ \E p \in Procs : deriveKey(p)
    \/ \E p \in Procs : encryptDerived(p)
    \/ \E p \in Procs : encryptReturn(p)
    \/ \E p \in Procs : decryptDerived(p)
    \/ \E p \in Procs : decryptReturn(p)
    \/ \E p \in Procs : loadSecretsDecrypted(p)

SpecStable == InitEnv /\ [][NextStable]_vars

\* C20 as stated: whatever was loaded and merged into process.env since, a
\* decrypt call on an envelope that an earlier decrypt call accepted ends
\* as that call did, with the same text.
C20_PassphraseStable ==
    (/\ calls["p2"].op = "decrypt" /\ calls["p2"].pc = "done"
     /\ calls["p2"].outcome.ok
     /\ calls["p3"].op = "decrypt" /\ calls["p3"].pc = "done"
     /\ calls["p3"].arg = calls["p2"].arg)
        => calls["p3"].outcome = calls["p2"].outcome

\* C20 amended: a step changes the passphrase variable only when it merges
\* or loads a payload that has the variable among its keys; and a decrypt
\* call on an envelope an earlier decrypt call accepted, reading the same
\* passphrase as that call, returns the same text. So after any loads and
\* merges of payloads without that key the envelope is still accepted.
C20_StableUnlessNamed ==
    [][/\ (MASTER_KEY \notin DOMAIN env' \/ env'[MASTER_KEY] # env[MASTER_KEY]) =>
            \E p \in Procs :
                \/ mergeSecrets(p, PayloadKey, PROCESS)
                \/ /\ calls[p].op = "loadSecrets" /\ calls[p].pc = "decrypted"
                   /\ calls[p].inner = Ok(JsonKey)
                   /\ calls'[p].pc = "done"
       /\ (/\ calls["p2"].op = "decrypt" /\ calls["p2"].pc = "done"
           /\ calls["p2"].outcome.ok
           /\ calls["p3"].op = "decrypt" /\ InFlight(calls["p3"])
           /\ calls'["p3"].pc = "done"
           /\ calls["p3"].arg = calls["p2"].arg
           /\ calls["p3"].masterKeyString = calls["p2"].masterKeyString)
              => calls'["p3"].outcome = calls["p2"].outcome
      ]_vars

\* decrypt accepted the envelope; {A: '1', B: '2'} was then loaded or merged
\* into process.env, which left the passphrase as it was; and decrypt has
\* accepted the envelope again, with the same text.
C20_Witness ==
    /\ calls["p2"].op = "decrypt" /\ calls["p2"].pc = "done"
    /\ calls["p2"].outcome.ok
    /\ calls["p1"].op \in {"mergeSecrets", "loadSecrets"} /\ calls["p1"].pc = "done"
    /\ calls["p1"].outcome = Ok("process.env")
    /\ KeyOfA \in DOMAIN env /\ env[KeyOfA] = Str(<<"1">>)
    /\ env[MASTER_KEY] = KeyA
    /\ calls["p3"].op = "decrypt" /\ calls["p3"].pc = "done"
    /\ calls["p3"].arg = calls["p2"].arg
    /\ calls["p3"].outcome = calls["p2"].outcome

====
